---- MODULE Spec2Model ----
(***************************************************************************)
(* Model of the moment-estimation and uncertainty-propagation code of      *)
(* Moments: the real/complex covariance converters of testComplexUncert.py *)
(* and calculatePhotoProdMoments of testMomentsPhotoProd.py.               *)
(*                                                                         *)
(* Numbers.  NumPy's float64 / complex128 values are modelled as exact     *)
(* complex rationals <<a, b, d>> = (a + b i) / d with d > 0 in lowest      *)
(* terms; a real number has b = 0.  <<0, 0, 0>> is the not-a-number value  *)
(* a division by zero produces; it propagates through every operation.     *)
(* Vectors are sequences, matrices are sequences of rows, indices are      *)
(* 1-based (source index i is model index i + 1).                          *)
(*                                                                         *)
(* Specifications.  SpecConv: one round trip through the converters,       *)
(* starting from a real matrix or from a (Hermitian, pseudo) pair, each    *)
(* direction with either variant.  SpecMoments: one call of                *)
(* calculatePhotoProdMoments, stage by stage; SpecSmallSample: the same    *)
(* call on input data with fewer than two events.  SpecIndex: the index    *)
(* loops of calcIntegralMatrix and of calculatePhotoProdMoments, iteration *)
(* by iteration, with the quantum-number triples and the flat-index        *)
(* counters.  SpecReduce: the sums over the events (integral matrix,       *)
(* H_meas, V_meas_aug) on a sample, on the sample reordered, and shard by  *)
(* shard.                                                                  *)
(***************************************************************************)
EXTENDS Integers, Sequences, FiniteSets, TLC

VARIABLES
  \* ---- converter run (testComplexUncert.py) ----
  convDir,      \* "real": starts from a real covariance; "complex": from (H, P); "idle"
  convStep,     \* number of conversions applied so far: 0, 1, 2
  convN,        \* n: the complex matrices are n x n, the real matrix is 2n x 2n
  toRealVariant,     \* which toReal was applied:    0 (none yet), 1 = complexCovToRealCov, 2 = ...2
  toComplexVariant,  \* which toComplex was applied: 0 (none yet), 1 = realCovToComplexCov, 2 = ...2
  xCovMat,      \* real 2n x 2n matrix: the input (convDir = "real") or the result of toReal
  xCovMatHermit,\* Hermitian covariance: input (convDir = "complex") or result of toComplex
  xCovMatPseudo,\* pseudo-covariance:    input (convDir = "complex") or result of toComplex
  foo,          \* the round-trip result: a real matrix (convDir = "real") or <<H, P>>
  \* ---- calculatePhotoProdMoments (testMomentsPhotoProd.py) ----
  pc,           \* "idle", "start", "measured", "corrected", "normalized", "returned", "error"
  nmbMoments,   \* n: number of moments
  nmbEvents,    \* N: number of events
  f_meas,       \* n x N matrix of basis-function values
  integralMatrix,  \* [given |-> BOOLEAN, dict |-> [<<meas, phys>> -> complex]]
  H_meas,       \* measured moments
  V_meas_aug,   \* augmented covariance of the measured moments
  I_acc,        \* assembled acceptance integral matrix
  J_aug,        \* augmented Jacobian
  H_phys,       \* physical moments
  V_phys_aug,   \* augmented covariance of the physical moments
  norm,         \* the normalization reference read at line 447
  momentsPhys,  \* returned list of (flat index, moment)
  momentsPhysCov,  \* returned dict (meas, phys) -> (ReRe, ImIm, ReIm)
  stdout,       \* what the call has printed so far: "H_meas", "I_acc", "eigenvalues"
  \* ---- index bookkeeping of calcIntegralMatrix and calculatePhotoProdMoments ----
  maxL,         \* maxL argument of calculatePhotoProdMoments
  maxL_PS,      \* maxL argument of the calcIntegralMatrix call that built integralMatrix
  ixLoop,       \* the loop nest that is running, or "returned", "KeyError", "idle"
  ixPos,        \* <<momentIndex, L, M>> of the next iteration of the (outer) loop nest
  iMoment,      \* the counter of the running loop: nmbMoments, iMoment, iMoment_meas, iMoment_phys
  fMeasKeys,    \* keys of fMeasValues (and of fPhysValues) in insertion order
  integralKeys, \* keys of the dictionary calcIntegralMatrix returns, in insertion order
  nmbMomentsCounted,  \* nmbMoments after the counting loop (lines 369-375)
  H_meas_rows,  \* {<<iMoment, triple>>}: the triple whose value was written to H_meas[iMoment]
  I_acc_cells,  \* {<<iMoment_meas, iMoment_phys, key>>}: the key read for I_acc[iMoment_meas, iMoment_phys]
  momentsPhysKeys,    \* the list momentsPhys as <<triple, iMoment_phys>> (index read from H_phys)
  momentsPhysCovKeys, \* {<<key, iMoment_meas, iMoment_phys>>}: momentsPhysCov[key] read from cell (meas, phys)
  \* ---- per-event reductions: calcIntegralMatrix, H_meas, V_meas_aug ----
  redStep,      \* "idle", "start", then the set of reductions computed so far
  nmbGenEvents, \* number of generated events
  fMeasValues,  \* n x N matrix: f_meas of every moment (by flat index) for every phase-space event
  fPhysValues,  \* n x N matrix: f_phys of every moment for every phase-space event
  eventOrder,   \* a permutation of the events 1..N
  shardOf,      \* the shard (1 or 2) of every event
  wholeSample,  \* [I_acc, H_meas, V_meas_aug] computed from the events as given
  permutedSample,  \* the same computed from the events in the order eventOrder
  shardSums,    \* [I_acc, H_meas]: sums of the values computed shard by shard
  \* ---- HistAxisBinning (PlottingUtilities.py) ----
  histStep,     \* "idle", "constructed", "ZeroDivisionError"
  nmbBins,      \* field nmbBins
  minVal,       \* field minVal
  maxVal,       \* field maxVal
  constructedAs,  \* astuple of the object right after construction
  histReads,    \* what was read from the object so far: <<member, subscript, value returned>>
  \* ---- integral-matrix plots (testMomentsPhotoProdEtaPi0.py) ----
  plotStep,   \* "idle", "plotting", "done"
  moments,   \* the integral matrix of the moment calculator of every kinematic bin
  plotPos,   \* number of iterations of the plotting loop that have run
  pdfFiles,  \* {<<file name prefix, bin whose label is in the name, matrix plotted>>}
  \* ---- generateDataSphHarmLC (testMoments.py) ----
  lcStep,   \* "idle", "start", "terms", "built", "done", "AssertionError"
  lcMaxL,   \* argument maxL
  parameters,   \* argument parameters
  lcL,   \* loop variable L
  lcM,   \* loop variable M
  termIndex,   \* termIndex
  termSlots,   \* the parameter slots [termIndex] that occur in the formula
  parametersSet,  \* the parameter indices given a value by SetParameter
  \* ---- calcSpinDensElemSetFromWaves (testMomentsPhotoProd.py) ----
  rhoStep,   \* "idle", "start", then the set of calls made: "asGiven", "exchanged"
  refl,   \* argument refl
  m1,   \* argument m1
  m2,   \* argument m2
  prodAmp1,   \* argument prodAmp1
  prodAmp1NegM,   \* argument prodAmp1NegM
  prodAmp2,   \* argument prodAmp2
  prodAmp2NegM,   \* argument prodAmp2NegM
  rhos,   \* the tuple returned for the arguments as given
  rhosExchanged,  \* the tuple returned with the two waves exchanged
  \* ---- sample covariances (testComplexUncert.py) ----
  sampleStep,   \* "idle", "start", "ZeroDivisionError"
  samples,   \* N x 2n matrix: one real sample [Re_0, Im_0, Re_1, Im_1, ...] per row
  ySamples,   \* N x n matrix: realVecToComplexVec of every sample
  covRealMc,   \* covMatrixReal(samples)
  covHermitFromReal,   \* realCovToComplexCov(covRealMc)
  covPseudoFromReal,   \* realCovToComplexCov(covRealMc, pseudoCovMat = True)
  yCovMatHermitMc,   \* covMatrixComplex(ySamples)
  yCovMatPseudoMc,  \* covMatrixComplex(ySamples, pseudoCovMat = True)
  \* ---- calcAllMomentsFromWaves (testMomentsPhotoProd.py) ----
  waveStep,   \* "idle", "start", "returned", "KeyError"
  prodAmps,   \* refl -> list of <<ell, m, amplitude>> in the order of the dictionary
  waveL,   \* loop variable L
  waveM,   \* loop variable M
  waveIndex,   \* index
  waveNorm,   \* norm
  momentSets,   \* what calcMomentSetFromWaves returned for every (L, M) so far
  inputMoments,   \* the list moments: one tuple of 2 or 3 normalized values per (L, M)
  inputMomentsLM,   \* the (L, M) every entry of the list was computed for
  waveWarnings   \* the warnings printed

convVars == <<convDir, convStep, convN, toRealVariant, toComplexVariant,
              xCovMat, xCovMatHermit, xCovMatPseudo, foo>>
momVars  == <<pc, nmbMoments, nmbEvents, f_meas, integralMatrix, H_meas, V_meas_aug,
              I_acc, J_aug, H_phys, V_phys_aug, norm, momentsPhys, momentsPhysCov, stdout>>
ixVars   == <<maxL, maxL_PS, ixLoop, ixPos, iMoment, fMeasKeys, integralKeys, nmbMomentsCounted,
              H_meas_rows, I_acc_cells, momentsPhysKeys, momentsPhysCovKeys>>
redVars  == <<redStep, nmbGenEvents, fMeasValues, fPhysValues, eventOrder, shardOf,
              wholeSample, permutedSample, shardSums>>
histVars == <<histStep, nmbBins, minVal, maxVal, constructedAs, histReads>>
plotVars == <<plotStep, moments, plotPos, pdfFiles>>
lcVars == <<lcStep, lcMaxL, parameters, lcL, lcM, termIndex, termSlots, parametersSet>>
rhoVars == <<rhoStep, refl, m1, m2, prodAmp1, prodAmp1NegM, prodAmp2, prodAmp2NegM, rhos, rhosExchanged>>
sampleVars == <<sampleStep, samples, ySamples, covRealMc, covHermitFromReal, covPseudoFromReal, yCovMatHermitMc, yCovMatPseudoMc>>
waveVars == <<waveStep, prodAmps, waveL, waveM, waveIndex, waveNorm, momentSets, inputMoments, inputMomentsLM, waveWarnings>>
\* the variables of the other scripts and classes
scriptVars == <<histVars, plotVars, lcVars, rhoVars, sampleVars, waveVars>>
vars     == <<convVars, momVars, ixVars, redVars, scriptVars>>

\* ------------------------------------------------------------------ bounds
\* largest n: complex matrices up to MaxDim x MaxDim, moment vectors up to MaxDim entries
MaxDim == 2
\* largest number of events N
MaxEvents == 2

\* ------------------------------------------------ complex rational numbers
Abs(x) == IF x < 0 THEN -x ELSE x

RECURSIVE GCD(_, _)
GCD(x, y) == IF y = 0 THEN x ELSE GCD(y, x % y)

NaN == <<0, 0, 0>>

\* (a + b i) / d in lowest terms with positive denominator; d = 0 is not a number
Cx(a, b, d) ==
  IF d = 0 THEN NaN
  ELSE LET g == GCD(GCD(Abs(a), Abs(b)), Abs(d))
           s == IF d < 0 THEN -1 ELSE 1
       IN  <<(s * a) \div g, (s * b) \div g, (s * d) \div g>>

Zero  == <<0, 0, 1>>
One   == <<1, 0, 1>>
ImagI == <<0, 1, 1>>
Two   == <<2, 0, 1>>

IsNaN(z) == z[3] = 0

\* x + y over the least common denominator
CAdd(x, y)  ==
  IF x[3] = 0 \/ y[3] = 0 THEN NaN
  ELSE LET g  == GCD(x[3], y[3])
           mx == y[3] \div g
           my == x[3] \div g
       IN  Cx(x[1] * mx + y[1] * my, x[2] * mx + y[2] * my, x[3] * mx)
CNeg(z)     == Cx(-z[1], -z[2], z[3])
CSub(x, y)  == CAdd(x, CNeg(y))
\* x * y, with the common factors of numerators and denominators removed first
CMul(x, y)  ==
  IF x[3] = 0 \/ y[3] = 0 THEN NaN
  ELSE LET gx == GCD(GCD(Abs(x[1]), Abs(x[2])), y[3])
           gy == GCD(GCD(Abs(y[1]), Abs(y[2])), x[3])
           x1 == x[1] \div gx
           x2 == x[2] \div gx
           y1 == y[1] \div gy
           y2 == y[2] \div gy
       IN  Cx(x1 * y1 - x2 * y2, x1 * y2 + x2 * y1, (x[3] \div gy) * (y[3] \div gx))
\* 1 / y = conj(y) / |y|^2 for y = g (c + e i) / f with g = gcd of the numerators:
\* (f / g) (c - e i) / (c^2 + e^2); y = 0 gives the not-a-number value
CInv(y) ==
  LET g == GCD(Abs(y[1]), Abs(y[2]))
  IN  IF g = 0 \/ y[3] = 0 THEN NaN
      ELSE LET c == y[1] \div g
               e == y[2] \div g
           IN  CMul(Cx(y[3], 0, g), Cx(c, -e, c * c + e * e))
\* x / y
CDiv(x, y)  == IF x[3] = 0 THEN NaN ELSE CMul(x, CInv(y))
CConj(z)    == Cx(z[1], -z[2], z[3])
CReal(z)    == Cx(z[1], 0, z[3])
CImag(z)    == Cx(z[2], 0, z[3])
CAbsSq(z)   == CMul(z, CConj(z))
FromInt(k)  == <<k, 0, 1>>

\* ------------------------------------------------------ vectors, matrices
Rows(A) == Len(A)
Cols(A) == IF Len(A) = 0 THEN 0 ELSE Len(A[1])

RECURSIVE Tabulate(_, _)
\* the sequence <<f[1], ..., f[k]>> with every element computed once
Tabulate(f, k) == IF k = 0 THEN <<>> ELSE Append(Tabulate(f, k - 1), f[k])

\* the n x m matrix A as a sequence of n rows of m computed entries
Mat(n, m, A) == Tabulate([i \in 1..n |-> Tabulate(A[i], m)], n)

RECURSIVE SumTo(_, _)
\* t[1] + ... + t[k] for a sequence t of numbers
SumTo(t, k) == IF k = 0 THEN Zero ELSE CAdd(SumTo(t, k - 1), t[k])

CSum(t) == SumTo(t, Len(t))

MatMul(A, B) ==
  Mat(Rows(A), Cols(B), [i \in 1..Rows(A) |-> [j \in 1..Cols(B) |->
     CSum([k \in 1..Cols(A) |-> CMul(A[i][k], B[k][j])])]])

MatVec(A, v) ==
  Tabulate([i \in 1..Rows(A) |-> CSum([k \in 1..Cols(A) |-> CMul(A[i][k], v[k])])], Rows(A))

Transpose(A) == [j \in 1..Cols(A) |-> [i \in 1..Rows(A) |-> A[i][j]]]
ConjMat(A)   == [i \in 1..Rows(A) |-> [j \in 1..Cols(A) |-> CConj(A[i][j])]]
ConjTranspose(A) == ConjMat(Transpose(A))
ZeroMat(n, m)   == [i \in 1..n |-> [j \in 1..m |-> Zero]]
IdentityMat(n)  == [i \in 1..n |-> [j \in 1..n |-> IF i = j THEN One ELSE Zero]]

\* np.block([[A, B], [C, D]]) for four n x n blocks
Block(A, B, C, D) ==
  LET n == Rows(A)
  IN  Mat(2 * n, 2 * n, [i \in 1..(2 * n) |-> [j \in 1..(2 * n) |->
        IF i <= n THEN (IF j <= n THEN A[i][j] ELSE B[i][j - n])
        ELSE (IF j <= n THEN C[i - n][j] ELSE D[i - n][j - n])]])

\* M[r0 : r0 + n, c0 : c0 + n] (r0, c0 are the 0-based offsets of the slice)
SubMat(M, r0, c0, n) == [i \in 1..n |-> [j \in 1..n |-> M[r0 + i][c0 + j]]]

\* M[r0::2, c0::2] (r0, c0 in {0, 1})
Strided(M, r0, c0) ==
  [i \in 1..(Rows(M) \div 2) |-> [j \in 1..(Cols(M) \div 2) |->
     M[2 * (i - 1) + r0 + 1][2 * (j - 1) + c0 + 1]]]

\* ------------------------------------ real/complex covariance converters
\* the combination both realCovToComplexCov variants return
CombineToComplex(V_Re_Re, V_Im_Im, V_Re_Im, V_Im_Re, pseudoCovMat) ==
  [i \in 1..Rows(V_Re_Re) |-> [j \in 1..Cols(V_Re_Re) |->
     IF pseudoCovMat
     THEN CAdd(CSub(V_Re_Re[i][j], V_Im_Im[i][j]),
               CMul(ImagI, CAdd(V_Im_Re[i][j], V_Re_Im[i][j])))
     ELSE CAdd(CAdd(V_Re_Re[i][j], V_Im_Im[i][j]),
               CMul(ImagI, CSub(V_Im_Re[i][j], V_Re_Im[i][j])))]]

\* realCovToComplexCov with the sign of V_Re_Im in the Hermitian matrix wrong (+ for both outputs)
realCovToComplexCov_SameSign(covReal, pseudoCovMat) ==
  CombineToComplex(Strided(covReal, 0, 0), Strided(covReal, 1, 1),
                   Strided(covReal, 0, 1), Strided(covReal, 1, 0), TRUE)

realCovToComplexCov(covReal, pseudoCovMat) ==
  CombineToComplex(Strided(covReal, 0, 0), Strided(covReal, 1, 1),
                   Strided(covReal, 0, 1), Strided(covReal, 1, 0), pseudoCovMat)

\* realCovToComplexCov2 returning V_Im_Re + V_Re_Im in the imaginary part of both outputs
realCovToComplexCov2_SameSign(covReal, pseudoCovMat) ==
  LET n == Rows(covReal) \div 2
  IN  CombineToComplex(SubMat(covReal, 0, 0, n), SubMat(covReal, n, n, n),
                       SubMat(covReal, 0, n, n), SubMat(covReal, n, 0, n), TRUE)

\* lines 118-137: the blocks covReal[:n, :n], [n:, n:], [:n, n:], [n:, :n]
realCovToComplexCov2(covReal, pseudoCovMat) ==
  LET n == Rows(covReal) \div 2
  IN  CombineToComplex(SubMat(covReal, 0, 0, n), SubMat(covReal, n, n, n),
                       SubMat(covReal, 0, n, n), SubMat(covReal, n, 0, n), pseudoCovMat)

HalfSum(A, B)  == [i \in 1..Rows(A) |-> [j \in 1..Cols(A) |-> CDiv(CAdd(A[i][j], B[i][j]), Two)]]
HalfDiff(A, B) == [i \in 1..Rows(A) |-> [j \in 1..Cols(A) |-> CDiv(CSub(A[i][j], B[i][j]), Two)]]
RealPart(A) == [i \in 1..Rows(A) |-> [j \in 1..Cols(A) |-> CReal(A[i][j])]]
ImagPart(A) == [i \in 1..Rows(A) |-> [j \in 1..Cols(A) |-> CImag(A[i][j])]]

V_Re_Re_of(covHermit, covPseudo) == HalfSum(RealPart(covHermit), RealPart(covPseudo))
V_Im_Im_of(covHermit, covPseudo) == HalfDiff(RealPart(covHermit), RealPart(covPseudo))
V_Re_Im_of(covHermit, covPseudo) == HalfDiff(ImagPart(covPseudo), ImagPart(covHermit))
V_Im_Re_of(covHermit, covPseudo) == HalfSum(ImagPart(covPseudo), ImagPart(covHermit))

\* complexCovToRealCov with V_Re_Im and V_Im_Re written to each other's slots
complexCovToRealCov_SwappedCross(covHermit, covPseudo) ==
  LET n  == Rows(covHermit)
      RR == V_Re_Re_of(covHermit, covPseudo)
      II == V_Im_Im_of(covHermit, covPseudo)
      RI == V_Re_Im_of(covHermit, covPseudo)
      IR == V_Im_Re_of(covHermit, covPseudo)
  IN  [r \in 1..(2 * n) |-> [c \in 1..(2 * n) |->
        LET i == (r + 1) \div 2
            j == (c + 1) \div 2
        IN  IF r % 2 = 1 THEN (IF c % 2 = 1 THEN RR[i][j] ELSE IR[i][j])
            ELSE (IF c % 2 = 1 THEN RI[i][j] ELSE II[i][j])]]

\* fills covReal[0::2, 0::2], [1::2, 1::2], [0::2, 1::2], [1::2, 0::2]
complexCovToRealCov(covHermit, covPseudo) ==
  LET n  == Rows(covHermit)
      RR == V_Re_Re_of(covHermit, covPseudo)
      II == V_Im_Im_of(covHermit, covPseudo)
      RI == V_Re_Im_of(covHermit, covPseudo)
      IR == V_Im_Re_of(covHermit, covPseudo)
  IN  [r \in 1..(2 * n) |-> [c \in 1..(2 * n) |->
        LET i == (r + 1) \div 2
            j == (c + 1) \div 2
        IN  IF r % 2 = 1 THEN (IF c % 2 = 1 THEN RR[i][j] ELSE RI[i][j])
            ELSE (IF c % 2 = 1 THEN IR[i][j] ELSE II[i][j])]]

complexCovToRealCov2(covHermit, covPseudo) ==
  Block(V_Re_Re_of(covHermit, covPseudo), V_Re_Im_of(covHermit, covPseudo),
        V_Im_Re_of(covHermit, covPseudo), V_Im_Im_of(covHermit, covPseudo))

\* ------------------------------------------- calculatePhotoProdMoments
\* rational stand-in for 2 * math.pi
TwoPi == <<6, 0, 1>>

\* MeasuredMoments with np.mean in place of np.sum
MeasuredMoments_Mean(f) ==
  [i \in 1..Rows(f) |-> CMul(TwoPi, CDiv(CSum(f[i]), FromInt(Len(f[i]))))]

\* H_meas[iMoment] = 2 * math.pi * np.sum(fcnVals)
MeasuredMoments(f) == [i \in 1..Rows(f) |-> CMul(TwoPi, CSum(f[i]))]

\* np.cov(m, y): the rows of m and y are the variables, the columns the observations;
\* c = dot(X, X.T.conj()) / fact with X the rows minus their averages and fact = N - 1;
\* for fact <= 0 NumPy warns, sets fact = 0.0 and the division gives not-a-number entries
NpCov(m, y) ==
  LET n    == Rows(m)
      N    == Cols(m)
      fact == IF N - 1 <= 0 THEN 0 ELSE N - 1
      X    == [a \in 1..(2 * n) |-> IF a <= n THEN m[a] ELSE y[a - n]]
      avg  == [a \in 1..(2 * n) |-> CDiv(CSum(X[a]), FromInt(N))]
      Xc   == Mat(2 * n, N, [a \in 1..(2 * n) |-> [k \in 1..N |-> CSub(X[a][k], avg[a])]])
  IN  Mat(2 * n, 2 * n, [a \in 1..(2 * n) |-> [b \in 1..(2 * n) |->
        CDiv(CSum([k \in 1..N |-> CMul(Xc[a][k], CConj(Xc[b][k]))]), FromInt(fact))]])

\* V_meas_aug = (2 * math.pi)**2 * nmbEvents * np.cov(f_meas, np.conjugate(f_meas))
MeasuredCov(f) ==
  LET c == NpCov(f, ConjMat(f))
      s == CMul(CMul(TwoPi, TwoPi), FromInt(Cols(f)))
  IN  [a \in 1..Rows(c) |-> [b \in 1..Rows(c) |-> CMul(s, c[a][b])]]

\* AssembleIacc with the row and column index exchanged
AssembleIacc_Transposed(dict, n) ==
  Mat(n, n, [iMeas \in 1..n |-> [iPhys \in 1..n |-> dict[<<iPhys, iMeas>>]]])

\* I_acc[iMoment_meas, iMoment_phys] = integralMatrix[(meas triple, phys triple)]
AssembleIacc(dict, n) ==
  Mat(n, n, [iMeas \in 1..n |-> [iPhys \in 1..n |-> dict[<<iMeas, iPhys>>]]])

\* A without row i and column j
Minor(A, i, j) ==
  [r \in 1..(Rows(A) - 1) |-> [c \in 1..(Rows(A) - 1) |->
     A[IF r < i THEN r ELSE r + 1][IF c < j THEN c ELSE c + 1]]]

RECURSIVE Det(_)
Det(A) ==
  IF Rows(A) = 0 THEN One
  ELSE CSum([j \in 1..Rows(A) |->
         CMul(IF j % 2 = 1 THEN A[1][j] ELSE CSub(Zero, A[1][j]), Det(Minor(A, 1, j)))])

\* np.linalg.inv raises LinAlgError for a singular matrix
IsSingular(A) == Det(A) = Zero

\* np.linalg.inv(A) for a non-singular A
Inverse(A) ==
  LET d == Det(A)
  IN  Mat(Rows(A), Rows(A), [i \in 1..Rows(A) |-> [j \in 1..Rows(A) |->
        CDiv(CMul(IF (i + j) % 2 = 0 THEN One ELSE CSub(Zero, One), Det(Minor(A, j, i))), d)]])

\* J_aug = np.block([[J, J_conj], [np.conjugate(J_conj), np.conjugate(J)]]), J = I_inv, J_conj = 0
AugmentedJacobian(I_inv) ==
  LET n      == Rows(I_inv)
      J      == I_inv
      J_conj == ZeroMat(n, n)
  IN  Block(J, J_conj, ConjMat(J_conj), ConjMat(J))

\* PropagatedCov with the plain transpose .T in place of the conjugate transpose .H
PropagatedCov_Transpose(Jaug, V) == MatMul(Jaug, MatMul(V, Transpose(Jaug)))

\* V_phys_aug = J_aug @ (V_meas_aug @ np.asmatrix(J_aug).H)
PropagatedCov(Jaug, V) == MatMul(Jaug, MatMul(V, ConjTranspose(Jaug)))

\* NormalizedMoments dividing by a view of H[0]: once H[0] is 1 the other elements stay as they are
NormalizedMoments_View(H, nrm) ==
  [i \in 1..Len(H) |-> IF i = 1 THEN CDiv(H[i], nrm) ELSE H[i]]

\* H_phys /= norm
NormalizedMoments(H, nrm) == [i \in 1..Len(H) |-> CDiv(H[i], nrm)]

\* NormSquared as norm * 2
NormSquared_Doubled(nrm) == CMul(nrm, Two)

\* the divisor norm**2
NormSquared(nrm) == CMul(nrm, nrm)

\* V_phys_aug /= norm**2
NormalizedCov(V, nrm) ==
  [a \in 1..Rows(V) |-> [b \in 1..Cols(V) |-> CDiv(V[a][b], NormSquared(nrm))]]

V_phys_Hermit(V, n) == SubMat(V, 0, 0, n)
V_phys_pseudo(V, n) == SubMat(V, 0, n, n)
V_phys_ReRe(V, n) == HalfSum(RealPart(V_phys_Hermit(V, n)), RealPart(V_phys_pseudo(V, n)))
V_phys_ImIm(V, n) == HalfDiff(RealPart(V_phys_Hermit(V, n)), RealPart(V_phys_pseudo(V, n)))
V_phys_ReIm(V, n) == HalfDiff(ImagPart(V_phys_pseudo(V, n)), ImagPart(V_phys_Hermit(V, n)))

\* momentsPhys.append(((momentIndex_phys, L_phys, M_phys), H_phys[iMoment_phys]))
ReturnedMoments(H) == [iPhys \in 1..Len(H) |-> <<iPhys, H[iPhys]>>]

\* momentsPhysCov[(meas triple, phys triple)] = (ReRe, ImIm, ReIm)[iMoment_meas, iMoment_phys]
ReturnedCov(V, n) ==
  LET ReRe == V_phys_ReRe(V, n)
      ImIm == V_phys_ImIm(V, n)
      ReIm == V_phys_ReIm(V, n)
  IN  [key \in (1..n) \X (1..n) |->
        <<ReRe[key[1]][key[2]], ImIm[key[1]][key[2]], ReIm[key[1]][key[2]]>>]

\* ------------------------------------------------ converter run: inputs
\* values of single matrix entries the inputs are varied with
RealVals == {Zero, <<-3, 0, 1>>, <<1, 0, 2>>}
CplxVals == {Zero, <<2, -1, 1>>, <<-1, 3, 2>>}

\* dense real matrix, not symmetric, all entries different
DenseReal(m) == [r \in 1..m |-> [c \in 1..m |-> FromInt(3 * r + c)]]
\* dense Hermitian and dense symmetric complex matrices
DenseHermit(n) == [i \in 1..n |-> [j \in 1..n |-> Cx(i + j, i - j, 1)]]
DensePseudo(n) == [i \in 1..n |-> [j \in 1..n |-> Cx(i * j, i + j, 1)]]

\* A with entry (r, c) set to v
SetEntry(A, r, c, v) == [A EXCEPT ![r][c] = v]
\* Hermitian A with entries (i, j) and (j, i) set so that the result is Hermitian
SetHermit(A, i, j, v) ==
  IF i = j THEN SetEntry(A, i, i, CReal(v))
  ELSE SetEntry(SetEntry(A, i, j, v), j, i, CConj(v))
\* symmetric A with entries (i, j) and (j, i) set to v
SetSymm(A, i, j, v) == SetEntry(SetEntry(A, i, j, v), j, i, v)

RealInputs(n) ==
  { SetEntry(B, r, c, v) : B \in {ZeroMat(2 * n, 2 * n), DenseReal(2 * n)},
                           r \in 1..(2 * n), c \in 1..(2 * n), v \in RealVals }
HermitInputs(n) ==
  { SetHermit(B, i, j, v) : B \in {ZeroMat(n, n), DenseHermit(n)},
                            i \in 1..n, j \in 1..n, v \in CplxVals }
PseudoInputs(n) ==
  { SetSymm(B, i, j, v) : B \in {ZeroMat(n, n), DensePseudo(n)},
                          i \in 1..n, j \in 1..n, v \in CplxVals }

IsHermitian(A) == \A i \in 1..Rows(A) : \A j \in 1..Rows(A) : A[i][j] = CConj(A[j][i])
IsSymmetric(A) == \A i \in 1..Rows(A) : \A j \in 1..Rows(A) : A[i][j] = A[j][i]
IsRealMat(A)   == \A i \in 1..Rows(A) : \A j \in 1..Cols(A) : A[i][j][2] = 0

MomIdle ==
  /\ pc = "idle" /\ nmbMoments = 0 /\ nmbEvents = 0 /\ f_meas = <<>>
  /\ integralMatrix = [given |-> FALSE, dict |-> <<>>]
  /\ H_meas = <<>> /\ V_meas_aug = <<>> /\ I_acc = <<>> /\ J_aug = <<>>
  /\ H_phys = <<>> /\ V_phys_aug = <<>> /\ norm = Zero
  /\ momentsPhys = <<>> /\ momentsPhysCov = <<>> /\ stdout = <<>>

ConvIdle ==
  /\ convDir = "idle" /\ convStep = 0 /\ convN = 0
  /\ toRealVariant = 0 /\ toComplexVariant = 0
  /\ xCovMat = <<>> /\ xCovMatHermit = <<>> /\ xCovMatPseudo = <<>> /\ foo = <<>>

IxIdle ==
  /\ maxL = 0 /\ maxL_PS = 0 /\ ixLoop = "idle" /\ ixPos = <<0, 0, 0>> /\ iMoment = 0
  /\ fMeasKeys = <<>> /\ integralKeys = <<>> /\ nmbMomentsCounted = 0
  /\ H_meas_rows = {} /\ I_acc_cells = {} /\ momentsPhysKeys = <<>> /\ momentsPhysCovKeys = {}

RedIdle ==
  /\ redStep = "idle" /\ nmbGenEvents = 0 /\ fMeasValues = <<>> /\ fPhysValues = <<>>
  /\ eventOrder = <<>> /\ shardOf = <<>>
  /\ wholeSample = <<>> /\ permutedSample = <<>> /\ shardSums = <<>>

HistIdle ==
  /\ histStep = "idle" /\ nmbBins = 0 /\ minVal = 0 /\ maxVal = 0
  /\ constructedAs = <<>> /\ histReads = <<>>

PlotIdle ==
  /\ plotStep = "idle" /\ moments = <<>> /\ plotPos = 0 /\ pdfFiles = {}

LcIdle ==
  /\ lcStep = "idle" /\ lcMaxL = 0 /\ parameters = <<>> /\ lcL = 0 /\ lcM = 0
  /\ termIndex = 0 /\ termSlots = {} /\ parametersSet = {}

RhoIdle ==
  /\ rhoStep = "idle" /\ refl = 0 /\ m1 = 0 /\ m2 = 0
  /\ prodAmp1 = Zero /\ prodAmp1NegM = Zero /\ prodAmp2 = Zero /\ prodAmp2NegM = Zero
  /\ rhos = <<>> /\ rhosExchanged = <<>>

SampleIdle ==
  /\ sampleStep = "idle" /\ samples = <<>> /\ ySamples = <<>> /\ covRealMc = <<>>
  /\ covHermitFromReal = <<>> /\ covPseudoFromReal = <<>>
  /\ yCovMatHermitMc = <<>> /\ yCovMatPseudoMc = <<>>

WaveIdle ==
  /\ waveStep = "idle" /\ prodAmps = <<>> /\ waveL = 0 /\ waveM = 0 /\ waveIndex = 0
  /\ waveNorm = <<>> /\ momentSets = <<>> /\ inputMoments = <<>> /\ inputMomentsLM = <<>>
  /\ waveWarnings = <<>>

ScriptIdle == HistIdle /\ PlotIdle /\ LcIdle /\ RhoIdle /\ SampleIdle /\ WaveIdle

\* the state outside each of the other scripts and classes
coreVars == <<convVars, momVars, ixVars, redVars>>
CoreIdle == ConvIdle /\ MomIdle /\ IxIdle /\ RedIdle
notHistVars == <<coreVars, plotVars, lcVars, rhoVars, sampleVars, waveVars>>
NotHistIdle == CoreIdle /\ PlotIdle /\ LcIdle /\ RhoIdle /\ SampleIdle /\ WaveIdle
notPlotVars == <<coreVars, histVars, lcVars, rhoVars, sampleVars, waveVars>>
NotPlotIdle == CoreIdle /\ HistIdle /\ LcIdle /\ RhoIdle /\ SampleIdle /\ WaveIdle
notLcVars == <<coreVars, histVars, plotVars, rhoVars, sampleVars, waveVars>>
NotLcIdle == CoreIdle /\ HistIdle /\ PlotIdle /\ RhoIdle /\ SampleIdle /\ WaveIdle
notRhoVars == <<coreVars, histVars, plotVars, lcVars, sampleVars, waveVars>>
NotRhoIdle == CoreIdle /\ HistIdle /\ PlotIdle /\ LcIdle /\ SampleIdle /\ WaveIdle
notSampleVars == <<coreVars, histVars, plotVars, lcVars, rhoVars, waveVars>>
NotSampleIdle == CoreIdle /\ HistIdle /\ PlotIdle /\ LcIdle /\ RhoIdle /\ WaveIdle
notWaveVars == <<coreVars, histVars, plotVars, lcVars, rhoVars, sampleVars>>
NotWaveIdle == CoreIdle /\ HistIdle /\ PlotIdle /\ LcIdle /\ RhoIdle /\ SampleIdle
NotWaveIdleScripts == HistIdle /\ PlotIdle /\ LcIdle /\ RhoIdle /\ SampleIdle

InitConv ==
  /\ MomIdle /\ IxIdle /\ RedIdle /\ ScriptIdle
  /\ convStep = 0 /\ toRealVariant = 0 /\ toComplexVariant = 0 /\ foo = <<>>
  /\ convN \in 1..MaxDim
  /\ \/ /\ convDir = "real"
        /\ xCovMat \in RealInputs(convN)
        /\ xCovMatHermit = <<>> /\ xCovMatPseudo = <<>>
     \/ /\ convDir = "complex"
        /\ xCovMat = <<>>
        /\ xCovMatHermit \in HermitInputs(convN)
        /\ xCovMatPseudo \in PseudoInputs(convN)

\* ----------------------------------------------- converter run: actions
ToComplex(variant, covReal, pseudoCovMat) ==
  IF variant = 1 THEN realCovToComplexCov(covReal, pseudoCovMat)
  ELSE realCovToComplexCov2(covReal, pseudoCovMat)

ToReal(variant, covHermit, covPseudo) ==
  IF variant = 1 THEN complexCovToRealCov(covHermit, covPseudo)
  ELSE complexCovToRealCov2(covHermit, covPseudo)

\* xCovMatHermit = realCovToComplexCov(xCovMat); xCovMatPseudo = ...(xCovMat, pseudoCovMat = True)
RealToComplexFirst(variant) ==
  /\ convDir = "real" /\ convStep = 0
  /\ xCovMatHermit' = ToComplex(variant, xCovMat, FALSE)
  /\ xCovMatPseudo' = ToComplex(variant, xCovMat, TRUE)
  /\ toComplexVariant' = variant
  /\ convStep' = 1
  /\ UNCHANGED <<convDir, convN, toRealVariant, xCovMat, foo, momVars, ixVars, redVars>>
  /\ UNCHANGED scriptVars

\* foo = complexCovToRealCov(xCovMatHermit, xCovMatPseudo)
ComplexToRealSecond(variant) ==
  /\ convDir = "real" /\ convStep = 1
  /\ foo' = ToReal(variant, xCovMatHermit, xCovMatPseudo)
  /\ toRealVariant' = variant
  /\ convStep' = 2
  /\ UNCHANGED <<convDir, convN, toComplexVariant, xCovMat, xCovMatHermit, xCovMatPseudo, momVars, ixVars, redVars>>
  /\ UNCHANGED scriptVars

\* R = complexCovToRealCov(H, P), kept in xCovMat
ComplexToRealFirst(variant) ==
  /\ convDir = "complex" /\ convStep = 0
  /\ xCovMat' = ToReal(variant, xCovMatHermit, xCovMatPseudo)
  /\ toRealVariant' = variant
  /\ convStep' = 1
  /\ UNCHANGED <<convDir, convN, toComplexVariant, xCovMatHermit, xCovMatPseudo, foo, momVars, ixVars, redVars>>
  /\ UNCHANGED scriptVars

\* realCovToComplexCov(R), realCovToComplexCov(R, pseudoCovMat = True)
RealToComplexSecond(variant) ==
  /\ convDir = "complex" /\ convStep = 1
  /\ foo' = <<ToComplex(variant, xCovMat, FALSE), ToComplex(variant, xCovMat, TRUE)>>
  /\ toComplexVariant' = variant
  /\ convStep' = 2
  /\ UNCHANGED <<convDir, convN, toRealVariant, xCovMat, xCovMatHermit, xCovMatPseudo, momVars, ixVars, redVars>>
  /\ UNCHANGED scriptVars

NextConv ==
  \/ \E variant \in {1, 2} : RealToComplexFirst(variant)
  \/ \E variant \in {1, 2} : ComplexToRealSecond(variant)
  \/ \E variant \in {1, 2} : ComplexToRealFirst(variant)
  \/ \E variant \in {1, 2} : RealToComplexSecond(variant)

SpecConv == InitConv /\ [][NextConv]_vars

\* the converters on covariance matrices: symmetric real matrices, (Hermitian, symmetric) pairs
DenseSymmetric(m) == [r \in 1..m |-> [c \in 1..m |-> FromInt(r * c + 2 * (r + c))]]
SymmetricInputs(n) ==
  { SetSymm(B, r, c, v) : B \in {ZeroMat(2 * n, 2 * n), DenseSymmetric(2 * n)},
                          r \in 1..(2 * n), c \in 1..(2 * n), v \in RealVals }

InitConvSymmetric ==
  /\ MomIdle /\ IxIdle /\ RedIdle /\ ScriptIdle
  /\ convStep = 0 /\ toRealVariant = 0 /\ toComplexVariant = 0 /\ foo = <<>>
  /\ convN \in 1..MaxDim
  /\ \/ /\ convDir = "real"
        /\ xCovMat \in SymmetricInputs(convN)
        /\ xCovMatHermit = <<>> /\ xCovMatPseudo = <<>>
     \/ /\ convDir = "complex"
        /\ xCovMat = <<>>
        /\ \/ xCovMatHermit \in HermitInputs(convN) /\ xCovMatPseudo = DensePseudo(convN)
           \/ xCovMatHermit = DenseHermit(convN) /\ xCovMatPseudo \in PseudoInputs(convN)

SpecConvSymmetric == InitConvSymmetric /\ [][NextConv]_vars

\* -------------------------------- calculatePhotoProdMoments: inputs
\* The moment vector has n = nmbMoments entries; model index 1 (flat index 0)
\* is the reference moment (momentIndex = 0, L = 0, M = 0).  Lines 400-455
\* are linear algebra on the n-vector and the 2n x 2n matrix and do not read
\* the quantum numbers, so n ranges over 1..MaxDim here and dictionary keys
\* are the pairs <<flat index measured, flat index physical>>.  Arithmetic
\* is exact: floating-point rounding is not part of the model.
\* basis-function values: a complex-valued sample and a real-valued sample
\* (the row of the reference moment is real in both), one entry varied
FMeasComplex(n, N) == [i \in 1..n |-> [k \in 1..N |->
                         IF i = 1 THEN FromInt(k) ELSE Cx(i - k, k, 1)]]
FMeasReal(n, N)    == [i \in 1..n |-> [k \in 1..N |-> FromInt(k * k - i)]]
FMeasVals == {<<-2, 0, 1>>, <<1, 1, 1>>}

FMeasInputs(n, N) ==
  { SetEntry(B, i, k, v) : B \in {FMeasComplex(n, N), FMeasReal(n, N)},
                           i \in 1..n, k \in 1..N, v \in FMeasVals }

\* integral matrices: the identity and a complex upper-triangular matrix, one entry varied
\* (the varied entry can make the matrix singular)
DictOf(A) == [key \in (1..Rows(A)) \X (1..Rows(A)) |-> A[key[1]][key[2]]]
UpperTriangular(n) == [i \in 1..n |-> [j \in 1..n |->
                         IF i = j THEN ImagI ELSE IF i < j THEN One ELSE Zero]]
IntegralVals == {Zero, <<1, 1, 2>>}

IntegralMatrixInputs(n) ==
  { [given |-> FALSE, dict |-> <<>>], [given |-> TRUE, dict |-> DictOf(UpperTriangular(n))] } \cup
  { [given |-> TRUE, dict |-> DictOf(SetEntry(IdentityMat(n), i, j, v))] :
       i \in 1..n, j \in 1..n, v \in IntegralVals }

InitMoments ==
  /\ ConvIdle /\ IxIdle /\ RedIdle /\ ScriptIdle
  /\ pc = "start"
  /\ nmbMoments \in 1..MaxDim
  /\ nmbEvents \in 2..MaxEvents
  /\ f_meas \in FMeasInputs(nmbMoments, nmbEvents)
  /\ integralMatrix \in IntegralMatrixInputs(nmbMoments)
  /\ H_meas = <<>> /\ V_meas_aug = <<>> /\ I_acc = <<>> /\ J_aug = <<>>
  /\ H_phys = <<>> /\ V_phys_aug = <<>> /\ norm = Zero
  /\ momentsPhys = <<>> /\ momentsPhysCov = <<>> /\ stdout = <<>>

\* ------------------------------- calculatePhotoProdMoments: actions
\* lines 376-390: measured moments and their augmented covariance
Measure ==
  /\ pc = "start"
  /\ H_meas' = MeasuredMoments(f_meas)
  /\ V_meas_aug' = MeasuredCov(f_meas)
  /\ stdout' = Append(stdout, "H_meas")
  /\ pc' = "measured"
  /\ UNCHANGED <<nmbMoments, nmbEvents, f_meas, integralMatrix, I_acc, J_aug,
                 H_phys, V_phys_aug, norm, momentsPhys, momentsPhysCov, convVars, ixVars, redVars>>
  /\ UNCHANGED scriptVars

\* CorrectIdeal without the assignment V_phys_aug = V_meas_aug: the zeros of line 401 stay
CorrectIdeal_KeepsZeros ==
  /\ pc = "measured"
  /\ ~integralMatrix.given
  /\ H_phys' = H_meas
  /\ V_phys_aug' = ZeroMat(2 * nmbMoments, 2 * nmbMoments)
  /\ pc' = "corrected"
  /\ UNCHANGED <<nmbMoments, nmbEvents, f_meas, integralMatrix, H_meas, V_meas_aug,
                 I_acc, J_aug, norm, momentsPhys, momentsPhysCov, stdout, convVars, ixVars, redVars>>
  /\ UNCHANGED scriptVars

\* lines 402-405: ideal detector; H_phys and V_phys_aug are the arrays H_meas and V_meas_aug
CorrectIdeal ==
  /\ pc = "measured"
  /\ ~integralMatrix.given
  /\ H_phys' = H_meas
  /\ V_phys_aug' = V_meas_aug
  /\ pc' = "corrected"
  /\ UNCHANGED <<nmbMoments, nmbEvents, f_meas, integralMatrix, H_meas, V_meas_aug,
                 I_acc, J_aug, norm, momentsPhys, momentsPhysCov, stdout, convVars, ixVars, redVars>>
  /\ UNCHANGED scriptVars

\* lines 406-445: acceptance correction and linear uncertainty propagation
CorrectAcceptance ==
  /\ pc = "measured"
  /\ integralMatrix.given
  /\ LET I     == AssembleIacc(integralMatrix.dict, nmbMoments)
         I_inv == Inverse(I)
         Jaug  == AugmentedJacobian(I_inv)
     IN  /\ ~IsSingular(I)
         /\ I_acc' = I
         /\ H_phys' = MatVec(I_inv, H_meas)
         /\ J_aug' = Jaug
         /\ V_phys_aug' = PropagatedCov(Jaug, V_meas_aug)
  /\ stdout' = stdout \o <<"I_acc", "eigenvalues">>
  /\ pc' = "corrected"
  /\ UNCHANGED <<nmbMoments, nmbEvents, f_meas, integralMatrix, H_meas, V_meas_aug,
                 norm, momentsPhys, momentsPhysCov, convVars, ixVars, redVars>>
  /\ UNCHANGED scriptVars

\* CorrectSingular with np.linalg.inv called before np.linalg.eig
CorrectSingular_InvertFirst ==
  /\ pc = "measured"
  /\ integralMatrix.given
  /\ LET I == AssembleIacc(integralMatrix.dict, nmbMoments)
     IN  /\ IsSingular(I)
         /\ I_acc' = I
  /\ stdout' = stdout \o <<"I_acc">>
  /\ pc' = "error"
  /\ UNCHANGED <<nmbMoments, nmbEvents, f_meas, integralMatrix, H_meas, V_meas_aug,
                 J_aug, H_phys, V_phys_aug, norm, momentsPhys, momentsPhysCov, convVars, ixVars, redVars>>
  /\ UNCHANGED scriptVars

\* lines 408-431: I_acc is assembled and printed, np.linalg.eig(I_acc) runs and the
\* eigenvalues are printed, then np.linalg.inv raises LinAlgError for a singular I_acc
CorrectSingular ==
  /\ pc = "measured"
  /\ integralMatrix.given
  /\ LET I == AssembleIacc(integralMatrix.dict, nmbMoments)
     IN  /\ IsSingular(I)
         /\ I_acc' = I
  /\ stdout' = stdout \o <<"I_acc", "eigenvalues">>
  /\ pc' = "error"
  /\ UNCHANGED <<nmbMoments, nmbEvents, f_meas, integralMatrix, H_meas, V_meas_aug,
                 J_aug, H_phys, V_phys_aug, norm, momentsPhys, momentsPhysCov, convVars, ixVars, redVars>>
  /\ UNCHANGED scriptVars

\* lines 446-449: normalization to H_0(0, 0); the divisions are in place, so for the
\* ideal detector they also change the arrays H_meas and V_meas_aug
Normalize ==
  /\ pc = "corrected"
  /\ norm' = H_phys[1]
  /\ H_phys' = NormalizedMoments(H_phys, H_phys[1])
  /\ V_phys_aug' = NormalizedCov(V_phys_aug, H_phys[1])
  /\ IF integralMatrix.given
     THEN UNCHANGED <<H_meas, V_meas_aug>>
     ELSE /\ H_meas' = NormalizedMoments(H_phys, H_phys[1])
          /\ V_meas_aug' = NormalizedCov(V_phys_aug, H_phys[1])
  /\ pc' = "normalized"
  /\ UNCHANGED <<nmbMoments, nmbEvents, f_meas, integralMatrix, I_acc, J_aug,
                 momentsPhys, momentsPhysCov, stdout, convVars, ixVars, redVars>>
  /\ UNCHANGED scriptVars

\* Return without waiting for the normalization
Return_BeforeNormalization ==
  /\ pc \in {"corrected", "normalized"}
  /\ momentsPhys' = ReturnedMoments(H_phys)
  /\ momentsPhysCov' = ReturnedCov(V_phys_aug, nmbMoments)
  /\ pc' = "returned"
  /\ UNCHANGED <<nmbMoments, nmbEvents, f_meas, integralMatrix, H_meas, V_meas_aug,
                 I_acc, J_aug, H_phys, V_phys_aug, norm, stdout, convVars, ixVars, redVars>>
  /\ UNCHANGED scriptVars

\* lines 450-479: covariances of real and imaginary parts, output
Return ==
  /\ pc = "normalized"
  /\ momentsPhys' = ReturnedMoments(H_phys)
  /\ momentsPhysCov' = ReturnedCov(V_phys_aug, nmbMoments)
  /\ pc' = "returned"
  /\ UNCHANGED <<nmbMoments, nmbEvents, f_meas, integralMatrix, H_meas, V_meas_aug,
                 I_acc, J_aug, H_phys, V_phys_aug, norm, stdout, convVars, ixVars, redVars>>
  /\ UNCHANGED scriptVars

NextMoments ==
  \/ Measure
  \/ CorrectIdeal
  \/ CorrectAcceptance
  \/ CorrectSingular
  \/ Normalize
  \/ Return

SpecMoments == InitMoments /\ [][NextMoments]_vars

\* calculatePhotoProdMoments on input data with no event or one event: f_meas has
\* shape (nmbMoments, 0) or (nmbMoments, 1)
InitSmallSample ==
  /\ ConvIdle /\ IxIdle /\ RedIdle /\ ScriptIdle
  /\ pc = "start"
  /\ nmbMoments \in 1..MaxDim
  /\ nmbEvents \in 0..1
  /\ f_meas \in FMeasInputs(nmbMoments, nmbEvents)
                  \cup {FMeasComplex(nmbMoments, nmbEvents), FMeasReal(nmbMoments, nmbEvents)}
  /\ integralMatrix \in IntegralMatrixInputs(nmbMoments)
  /\ H_meas = <<>> /\ V_meas_aug = <<>> /\ I_acc = <<>> /\ J_aug = <<>>
  /\ H_phys = <<>> /\ V_phys_aug = <<>> /\ norm = Zero
  /\ momentsPhys = <<>> /\ momentsPhysCov = <<>> /\ stdout = <<>>

SpecSmallSample == InitSmallSample /\ [][NextMoments]_vars

\* ---------------------------------------------- moment index set: the loops
\* Every enumeration of the moments is the loop nest
\*   for momentIndex in range(3):
\*     for L in range(2 * maxL + 2):
\*       for M in range(L + 1):
\*         if momentIndex == 2 and M == 0: continue
\* A position of the nest is <<momentIndex, L, M>>; maxL >= 0 (getMaxSpin).
\* largest maxL argument
MaxL == 1

\* the position after the last iteration of `for momentIndex in range(3)`
LoopEnd == <<3, 0, 0>>

\* Skipped for every momentIndex: all M = 0 moments are left out
Skipped_EveryMomentIndex(pos) == pos[3] = 0

\* `if momentIndex == 2 and M == 0: continue`
Skipped(pos) == pos[1] = 2 /\ pos[3] = 0

\* NextPos with `for L in range(2 * maxL + 3)`
NextPos_OneMoreL(pos, maxl) ==
  IF pos[3] + 1 < pos[2] + 1 THEN <<pos[1], pos[2], pos[3] + 1>>
  ELSE IF pos[2] + 1 < 2 * maxl + 3 THEN <<pos[1], pos[2] + 1, 0>>
  ELSE <<pos[1] + 1, 0, 0>>

\* the position that follows pos: next M in range(L + 1), else next L in
\* range(2 * maxL + 2), else next momentIndex
NextPos(pos, maxl) ==
  IF pos[3] + 1 < pos[2] + 1 THEN <<pos[1], pos[2], pos[3] + 1>>
  ELSE IF pos[2] + 1 < 2 * maxl + 2 THEN <<pos[1], pos[2] + 1, 0>>
  ELSE <<pos[1] + 1, 0, 0>>

RECURSIVE BodyRunsFrom(_, _)
\* the triples for which the body of the loop nest runs, from position pos on, in order
BodyRunsFrom(pos, maxl) ==
  IF pos = LoopEnd THEN <<>>
  ELSE (IF Skipped(pos) THEN <<>> ELSE <<pos>>) \o BodyRunsFrom(NextPos(pos, maxl), maxl)

\* an inner loop nest (lines 413-422, 466-476): element j is the triple of its
\* iteration with counter value j - 1 (the counter starts at 0 and is
\* incremented at the end of the body)
InnerLoop(maxl) == BodyRunsFrom(<<0, 0, 0>>, maxl)

Range(s) == { s[i] : i \in 1..Len(s) }

\* d[key] = ... on a dict whose keys in insertion order are keys: a new key is
\* appended, an existing key keeps its place
DictSet(keys, key) == IF key \in Range(keys) THEN keys ELSE Append(keys, key)

RECURSIVE DictSetAll(_, _, _, _)
\* DictSet for new[i], new[i + 1], ... in this order; present = Range(keys)
DictSetAll(keys, present, new, i) ==
  IF i > Len(new) THEN keys
  ELSE IF new[i] \in present THEN DictSetAll(keys, present, new, i + 1)
  ELSE DictSetAll(Append(keys, new[i]), present \cup {new[i]}, new, i + 1)

\* the 6-tuple keys of one row: the triple pos followed by each triple of the
\* inner loop, by inner counter + 1
RowKeys(pos, inner) == Tabulate([j \in 1..Len(inner) |-> pos \o inner[j]], Len(inner))
\* the same with the inner triple first (lines 471-472: meas is the inner loop)
ColumnKeys(pos, inner) == Tabulate([j \in 1..Len(inner) |-> inner[j] \o pos], Len(inner))
\* the positions of keys that are not in the dictionary
MissingKeys(keys, present) == { j \in 1..Len(keys) : keys[j] \notin present }
Min(S) == CHOOSE x \in S : \A y \in S : x <= y

InitIndex ==
  /\ ConvIdle /\ MomIdle /\ RedIdle /\ ScriptIdle
  /\ maxL \in 0..MaxL /\ maxL_PS \in 0..MaxL
  /\ ixLoop = "fMeasValues" /\ ixPos = <<0, 0, 0>> /\ iMoment = 0
  /\ fMeasKeys = <<>> /\ integralKeys = <<>> /\ nmbMomentsCounted = 0
  /\ H_meas_rows = {} /\ I_acc_cells = {} /\ momentsPhysKeys = <<>> /\ momentsPhysCovKeys = {}

\* ------------------------------------------ moment index set: the actions
\* lines 338-344, one iteration: fMeasValues[(momentIndex, L, M)] = ...,
\* fPhysValues[(momentIndex, L, M)] = ... (both dicts get the same key)
FillBasisValues ==
  /\ ixLoop = "fMeasValues"
  /\ fMeasKeys' = IF Skipped(ixPos) THEN fMeasKeys ELSE DictSet(fMeasKeys, ixPos)
  /\ IF NextPos(ixPos, maxL_PS) = LoopEnd
     THEN ixLoop' = "items" /\ ixPos' = <<0, 0, 0>>
     ELSE ixPos' = NextPos(ixPos, maxL_PS) /\ UNCHANGED ixLoop
  /\ UNCHANGED <<maxL, maxL_PS, iMoment, integralKeys, nmbMomentsCounted, H_meas_rows,
                 I_acc_cells, momentsPhysKeys, momentsPhysCovKeys, convVars, momVars, redVars>>
  /\ UNCHANGED scriptVars

\* lines 346-349, one iteration of the outer loop over fMeasValues.items() with
\* its whole inner loop over fPhysValues.items(): I_acc[indices_meas + indices_phys] = ...
\* iMoment counts the items of fMeasValues already taken
FillIntegralRow ==
  /\ ixLoop = "items"
  /\ integralKeys' = DictSetAll(integralKeys, Range(integralKeys),
                                RowKeys(fMeasKeys[iMoment + 1], fMeasKeys), 1)
  /\ IF iMoment + 1 = Len(fMeasKeys)
     THEN ixLoop' = "nmbMoments" /\ iMoment' = 0
     ELSE iMoment' = iMoment + 1 /\ UNCHANGED ixLoop
  /\ UNCHANGED <<maxL, maxL_PS, ixPos, fMeasKeys, nmbMomentsCounted, H_meas_rows,
                 I_acc_cells, momentsPhysKeys, momentsPhysCovKeys, convVars, momVars, redVars>>
  /\ UNCHANGED scriptVars

\* lines 368-375, one iteration: nmbMoments += 1
CountMoments ==
  /\ ixLoop = "nmbMoments"
  /\ LET counted == IF Skipped(ixPos) THEN iMoment ELSE iMoment + 1
     IN  IF NextPos(ixPos, maxL) = LoopEnd
         THEN /\ nmbMomentsCounted' = counted
              /\ ixLoop' = "H_meas" /\ ixPos' = <<0, 0, 0>> /\ iMoment' = 0
         ELSE /\ iMoment' = counted
              /\ ixPos' = NextPos(ixPos, maxL)
              /\ UNCHANGED <<ixLoop, nmbMomentsCounted>>
  /\ UNCHANGED <<maxL, maxL_PS, fMeasKeys, integralKeys, H_meas_rows,
                 I_acc_cells, momentsPhysKeys, momentsPhysCovKeys, convVars, momVars, redVars>>
  /\ UNCHANGED scriptVars

\* lines 379-388, one iteration: f_meas[iMoment, :] = fcnVals, H_meas[iMoment] = ..., iMoment += 1
FillMeasuredRow ==
  /\ ixLoop = "H_meas"
  /\ H_meas_rows' = IF Skipped(ixPos) THEN H_meas_rows ELSE H_meas_rows \cup {<<iMoment, ixPos>>}
  /\ IF NextPos(ixPos, maxL) = LoopEnd
     THEN ixLoop' = "I_acc" /\ ixPos' = <<0, 0, 0>> /\ iMoment' = 0
     ELSE /\ ixPos' = NextPos(ixPos, maxL)
          /\ iMoment' = IF Skipped(ixPos) THEN iMoment ELSE iMoment + 1
          /\ UNCHANGED ixLoop
  /\ UNCHANGED <<maxL, maxL_PS, fMeasKeys, integralKeys, nmbMomentsCounted,
                 I_acc_cells, momentsPhysKeys, momentsPhysCovKeys, convVars, momVars, redVars>>
  /\ UNCHANGED scriptVars

\* lines 409-423, one iteration of the outer (meas) loop nest with its whole inner
\* (phys) loop nest: I_acc[iMoment_meas, iMoment_phys] = integralMatrix[key];
\* iMoment is iMoment_meas, every key of the row is in the dictionary
AssembleRow ==
  /\ ixLoop = "I_acc"
  /\ LET keys == RowKeys(ixPos, InnerLoop(maxL))
     IN  /\ Skipped(ixPos) \/ MissingKeys(keys, Range(integralKeys)) = {}
         /\ I_acc_cells' = IF Skipped(ixPos) THEN I_acc_cells
                           ELSE I_acc_cells \cup { <<iMoment, j - 1, keys[j]>> : j \in 1..Len(keys) }
  /\ IF NextPos(ixPos, maxL) = LoopEnd
     THEN ixLoop' = "momentsPhys" /\ ixPos' = <<0, 0, 0>> /\ iMoment' = 0
     ELSE /\ ixPos' = NextPos(ixPos, maxL)
          /\ iMoment' = IF Skipped(ixPos) THEN iMoment ELSE iMoment + 1
          /\ UNCHANGED ixLoop
  /\ UNCHANGED <<maxL, maxL_PS, fMeasKeys, integralKeys, nmbMomentsCounted, H_meas_rows,
                 momentsPhysKeys, momentsPhysCovKeys, convVars, momVars, redVars>>
  /\ UNCHANGED scriptVars

\* line 421: integralMatrix[key] raises KeyError at the first key of the row that
\* is not in the dictionary; the cells before it were written
AssembleRowKeyError ==
  /\ ixLoop = "I_acc"
  /\ ~Skipped(ixPos)
  /\ LET keys    == RowKeys(ixPos, InnerLoop(maxL))
         missing == MissingKeys(keys, Range(integralKeys))
     IN  /\ missing # {}
         /\ I_acc_cells' = I_acc_cells \cup
                             { <<iMoment, j - 1, keys[j]>> : j \in 1..(Min(missing) - 1) }
  /\ ixLoop' = "KeyError"
  /\ UNCHANGED <<maxL, maxL_PS, ixPos, iMoment, fMeasKeys, integralKeys, nmbMomentsCounted,
                 H_meas_rows, momentsPhysKeys, momentsPhysCovKeys, convVars, momVars, redVars>>
  /\ UNCHANGED scriptVars

\* CovDictSetAll reading the cell [iMoment_phys, iMoment_meas]
CovDictSetAll_IndicesExchanged(cells, keys, iPhys) ==
  { c \in cells : c[1] \notin Range(keys) } \cup { <<keys[j], iPhys, j - 1>> : j \in 1..Len(keys) }

\* momentsPhysCov[key] = (...)[iMoment_meas, iMoment_phys] for every key of keys
\* (iMoment_meas is the inner counter): an existing key is overwritten
CovDictSetAll(cells, keys, iPhys) ==
  { c \in cells : c[1] \notin Range(keys) } \cup { <<keys[j], j - 1, iPhys>> : j \in 1..Len(keys) }

\* lines 459-477, one iteration of the outer (phys) loop nest with its whole inner
\* (meas) loop nest: momentsPhys.append((triple, H_phys[iMoment_phys])) and
\* momentsPhysCov[meas + phys] = (...)[iMoment_meas, iMoment_phys]; iMoment is iMoment_phys
FillOutputRow ==
  /\ ixLoop = "momentsPhys"
  /\ IF Skipped(ixPos)
     THEN UNCHANGED <<momentsPhysKeys, momentsPhysCovKeys>>
     ELSE /\ momentsPhysKeys' = Append(momentsPhysKeys, <<ixPos, iMoment>>)
          /\ momentsPhysCovKeys' = CovDictSetAll(momentsPhysCovKeys,
                                                 ColumnKeys(ixPos, InnerLoop(maxL)), iMoment)
  /\ IF NextPos(ixPos, maxL) = LoopEnd
     THEN ixLoop' = "returned" /\ UNCHANGED <<ixPos, iMoment>>
     ELSE /\ ixPos' = NextPos(ixPos, maxL)
          /\ iMoment' = IF Skipped(ixPos) THEN iMoment ELSE iMoment + 1
          /\ UNCHANGED ixLoop
  /\ UNCHANGED <<maxL, maxL_PS, fMeasKeys, integralKeys, nmbMomentsCounted, H_meas_rows,
                 I_acc_cells, convVars, momVars, redVars>>
  /\ UNCHANGED scriptVars

NextIndex ==
  \/ FillBasisValues
  \/ FillIntegralRow
  \/ CountMoments
  \/ FillMeasuredRow
  \/ AssembleRow
  \/ AssembleRowKeyError
  \/ FillOutputRow

SpecIndex == InitIndex /\ [][NextIndex]_vars

\* ------------------------------------ per-event reductions: the operators
\* largest number of events of the sample the reductions run over
MaxSample == 3

\* rational stand-in for 8 * math.pi**2 = 2 * (2 pi)^2
EightPiSquared == CMul(Two, CMul(TwoPi, TwoPi))

\* np.vdot: the first factor is conjugated
npDot_Conjugating(a, b) == CSum([k \in 1..Len(a) |-> CMul(CConj(a[k]), b[k])])

\* np.dot(a, b) of two 1-d complex arrays: sum of a[k] * b[k], nothing conjugated
npDot(a, b) == CSum([k \in 1..Len(a) |-> CMul(a[k], b[k])])

\* lines 346-350: I_acc[indices_meas + indices_phys] =
\*   8 * math.pi**2 / nmbGenEvents * np.dot(f_meas, f_phys)
\* for every pair of keys; fMeas and fPhys hold the basis-function values by
\* flat index, the key is <<flat index measured, flat index physical>>
calcIntegralMatrix(fMeas, fPhys, nGen) ==
  [key \in (1..Rows(fMeas)) \X (1..Rows(fPhys)) |->
     CMul(CDiv(EightPiSquared, FromInt(nGen)), npDot(fMeas[key[1]], fPhys[key[2]]))]

\* the values f of the events listed in events, in that order
TakeEvents(f, events) ==
  Mat(Rows(f), Len(events), [i \in 1..Rows(f) |-> [k \in 1..Len(events) |-> f[i][events[k]]]])

RECURSIVE EventsOfShard(_, _, _)
\* the events 1..k of shard s, in increasing order
EventsOfShard(shards, s, k) ==
  IF k = 0 THEN <<>>
  ELSE IF shards[k] = s THEN Append(EventsOfShard(shards, s, k - 1), k)
  ELSE EventsOfShard(shards, s, k - 1)

\* the three reductions over the events of f: Eq. (178), Eq. (179), Eqs. (180), (181)
Reductions(fMeas, fPhys, nGen) ==
  [I_acc      |-> calcIntegralMatrix(fMeas, fPhys, nGen),
   H_meas     |-> MeasuredMoments(fMeas),
   V_meas_aug |-> MeasuredCov(fMeas)]

\* entry-wise sums of the values of two shards
AddDicts(d1, d2)   == [key \in DOMAIN d1 |-> CAdd(d1[key], d2[key])]
AddVectors(v1, v2) == [i \in 1..Len(v1) |-> CAdd(v1[i], v2[i])]

\* basis-function values f_phys: complex, different from f_meas in every entry
FPhysComplex(n, N) == [i \in 1..n |-> [k \in 1..N |-> Cx(k, i + k, 1)]]
\* f_meas samples: the two samples of FMeasInputs, and the complex one with the
\* first event of the last moment varied
SampleInputs(n, N) ==
  { FMeasComplex(n, N), FMeasReal(n, N) } \cup
  { SetEntry(FMeasComplex(n, N), n, 1, v) : v \in FMeasVals }
\* the partition that puts the first c events of order into shard 1, the others into shard 2
ShardsOf(order, c) ==
  [k \in 1..Len(order) |-> IF \E a \in 1..c : order[a] = k THEN 1 ELSE 2]
EventOrders(N) == { p \in [1..N -> 1..N] : \A a \in 1..N : \A b \in 1..N : p[a] = p[b] => a = b }

InitReduce ==
  /\ ConvIdle /\ MomIdle /\ IxIdle /\ ScriptIdle
  /\ redStep = "start"
  /\ \E n \in 1..MaxDim : \E N \in 1..MaxSample :
       /\ fMeasValues \in SampleInputs(n, N)
       /\ fPhysValues = FPhysComplex(n, N)
       /\ nmbGenEvents \in {N, N + 1}
       /\ eventOrder \in EventOrders(N)
       /\ \E c \in 0..N : shardOf = ShardsOf(eventOrder, c)
  /\ wholeSample = <<>> /\ permutedSample = <<>> /\ shardSums = <<>>

\* ------------------------------------- per-event reductions: the actions
\* calcIntegralMatrix and the measured stage of calculatePhotoProdMoments on the sample
ReduceWhole ==
  /\ redStep = "start"
  /\ wholeSample' = Reductions(fMeasValues, fPhysValues, nmbGenEvents)
  /\ redStep' = "whole"
  /\ UNCHANGED <<nmbGenEvents, fMeasValues, fPhysValues, eventOrder, shardOf,
                 permutedSample, shardSums, convVars, momVars, ixVars>>
  /\ UNCHANGED scriptVars

\* the same on the sample with its events in the order eventOrder
ReducePermuted ==
  /\ redStep = "whole"
  /\ permutedSample' = Reductions(TakeEvents(fMeasValues, eventOrder),
                                  TakeEvents(fPhysValues, eventOrder), nmbGenEvents)
  /\ redStep' = "permuted"
  /\ UNCHANGED <<nmbGenEvents, fMeasValues, fPhysValues, eventOrder, shardOf,
                 wholeSample, shardSums, convVars, momVars, ixVars>>
  /\ UNCHANGED scriptVars

\* the sums run shard by shard (same nmbGenEvents for every shard), shard values added
ReduceShards ==
  /\ redStep = "permuted"
  /\ LET N  == Len(shardOf)
         s1 == EventsOfShard(shardOf, 1, N)
         s2 == EventsOfShard(shardOf, 2, N)
     IN  shardSums' =
           [I_acc  |-> AddDicts(
                         calcIntegralMatrix(TakeEvents(fMeasValues, s1), TakeEvents(fPhysValues, s1), nmbGenEvents),
                         calcIntegralMatrix(TakeEvents(fMeasValues, s2), TakeEvents(fPhysValues, s2), nmbGenEvents)),
            H_meas |-> AddVectors(MeasuredMoments(TakeEvents(fMeasValues, s1)),
                                  MeasuredMoments(TakeEvents(fMeasValues, s2)))]
  /\ redStep' = "sharded"
  /\ UNCHANGED <<nmbGenEvents, fMeasValues, fPhysValues, eventOrder, shardOf,
                 wholeSample, permutedSample, convVars, momVars, ixVars>>
  /\ UNCHANGED scriptVars

NextReduce ==
  \/ ReduceWhole
  \/ ReducePermuted
  \/ ReduceShards

SpecReduce == InitReduce /\ [][NextReduce]_vars

\* --------------------- calcIntegralMatrix, then calculatePhotoProdMoments
\* largest nmbGenEvents
MaxGen == 2

\* phase-space samples <<fMeasValues, fPhysValues>>: as many events as moments with
\* f_meas the unit matrix and f_phys triangular; dense complex values; one event only
\* (the integral matrix of fewer events than moments is singular)
PhaseSpaceInputs(n) ==
  { <<IdentityMat(n), UpperTriangular(n)>>,
    <<FMeasComplex(n, n), FPhysComplex(n, n)>>,
    <<FMeasComplex(n, 1), FPhysComplex(n, 1)>> }

\* main, lines 635-640: integralMatrix = calcIntegralMatrix(phase-space data, nmbGenEvents, ...),
\* then calculatePhotoProdMoments(data, ..., integralMatrix = integralMatrix)
InitPipeline ==
  /\ ConvIdle /\ IxIdle /\ ScriptIdle
  /\ redStep = "start"
  /\ nmbMoments \in 1..MaxDim
  /\ nmbEvents \in 2..MaxEvents
  /\ f_meas \in SampleInputs(nmbMoments, nmbEvents)
  /\ \E ps \in PhaseSpaceInputs(nmbMoments) : fMeasValues = ps[1] /\ fPhysValues = ps[2]
  /\ nmbGenEvents \in (-1)..MaxGen
  /\ eventOrder = <<>> /\ shardOf = <<>>
  /\ wholeSample = <<>> /\ permutedSample = <<>> /\ shardSums = <<>>
  /\ pc = "idle"
  /\ integralMatrix = [given |-> FALSE, dict |-> <<>>]
  /\ H_meas = <<>> /\ V_meas_aug = <<>> /\ I_acc = <<>> /\ J_aug = <<>>
  /\ H_phys = <<>> /\ V_phys_aug = <<>> /\ norm = Zero
  /\ momentsPhys = <<>> /\ momentsPhysCov = <<>> /\ stdout = <<>>

\* lines 345-350 with nmbGenEvents # 0: the dictionary is returned and passed on
ReturnIntegralMatrix ==
  /\ redStep = "start" /\ pc = "idle"
  /\ nmbGenEvents # 0
  /\ integralMatrix' = [given |-> TRUE,
                        dict  |-> calcIntegralMatrix(fMeasValues, fPhysValues, nmbGenEvents)]
  /\ redStep' = "returned"
  /\ pc' = "start"
  /\ UNCHANGED <<nmbMoments, nmbEvents, f_meas, H_meas, V_meas_aug, I_acc, J_aug, H_phys,
                 V_phys_aug, norm, momentsPhys, momentsPhysCov, stdout,
                 nmbGenEvents, fMeasValues, fPhysValues, eventOrder, shardOf,
                 wholeSample, permutedSample, shardSums, convVars, ixVars>>
  /\ UNCHANGED scriptVars

\* line 349 with nmbGenEvents = 0: the Python division 8 * math.pi**2 / nmbGenEvents
\* (float by int) raises ZeroDivisionError for the first matrix element
IntegralZeroDivisionError ==
  /\ redStep = "start" /\ pc = "idle"
  /\ nmbGenEvents = 0
  /\ redStep' = "ZeroDivisionError"
  /\ UNCHANGED <<nmbGenEvents, fMeasValues, fPhysValues, eventOrder, shardOf,
                 wholeSample, permutedSample, shardSums, momVars, convVars, ixVars>>
  /\ UNCHANGED scriptVars

NextPipeline ==
  \/ ReturnIntegralMatrix
  \/ IntegralZeroDivisionError
  \/ Measure
  \/ CorrectAcceptance
  \/ CorrectSingular
  \/ Normalize
  \/ Return

SpecPipeline == InitPipeline /\ [][NextPipeline]_vars

\* ---------------------------------------- PlottingUtilities.HistAxisBinning
\* largest number of bins
MaxBins == 2
\* minVal and maxVal are integers in -MaxVal..MaxVal
MaxVal == 1
\* number of reads of the object in one run
MaxReads == 2

\* lines 97-100
astuple == <<nmbBins, minVal, maxVal>>

\* the fields after the exchange of lines 112-113
ExchangedMinVal == IF maxVal < minVal THEN maxVal ELSE minVal
ExchangedMaxVal == IF maxVal < minVal THEN minVal ELSE maxVal

\* lines 109-114: the value returned
valueIntervalLength == FromInt(ExchangedMaxVal - ExchangedMinVal)

\* lines 116-119
binWidth == CDiv(valueIntervalLength, FromInt(nmbBins))

\* line 82: self.minVal is read before self.binWidth is evaluated
getitem(subscript) ==
  CAdd(FromInt(minVal), CMul(Cx(2 * subscript + 1, 0, 2), binWidth))

InitHist ==
  /\ NotHistIdle
  /\ histStep = "constructed"
  /\ nmbBins \in 0..MaxBins
  /\ minVal \in (-MaxVal)..MaxVal
  /\ maxVal \in (-MaxVal)..MaxVal
  /\ constructedAs = <<nmbBins, minVal, maxVal>>
  /\ histReads = <<>>

CanRead == histStep = "constructed" /\ Len(histReads) < MaxReads

\* lines 108-114
ReadValueIntervalLength ==
  /\ CanRead
  /\ minVal' = ExchangedMinVal
  /\ maxVal' = ExchangedMaxVal
  /\ histReads' = Append(histReads, <<"valueIntervalLength", 0, valueIntervalLength>>)
  /\ UNCHANGED <<histStep, nmbBins, constructedAs, notHistVars>>

\* lines 116-119
ReadBinWidth ==
  /\ CanRead
  /\ nmbBins # 0
  /\ minVal' = ExchangedMinVal
  /\ maxVal' = ExchangedMaxVal
  /\ histReads' = Append(histReads, <<"binWidth", 0, binWidth>>)
  /\ UNCHANGED <<histStep, nmbBins, constructedAs, notHistVars>>

\* line 119 with nmbBins = 0 (binWidth read directly, or by self[subscript] with subscript < 0)
BinWidthZeroDivisionError ==
  /\ CanRead
  /\ nmbBins = 0
  /\ minVal' = ExchangedMinVal
  /\ maxVal' = ExchangedMaxVal
  /\ histStep' = "ZeroDivisionError"
  /\ UNCHANGED <<nmbBins, constructedAs, histReads, notHistVars>>

\* lines 76-82
GetItem(subscript) ==
  /\ CanRead
  /\ nmbBins # 0
  /\ subscript < nmbBins
  /\ minVal' = ExchangedMinVal
  /\ maxVal' = ExchangedMaxVal
  /\ histReads' = Append(histReads, <<"__getitem__", subscript, getitem(subscript)>>)
  /\ UNCHANGED <<histStep, nmbBins, constructedAs, notHistVars>>

\* lines 81, 83
GetItemIndexError(subscript) ==
  /\ CanRead
  /\ subscript >= nmbBins
  /\ histReads' = Append(histReads, <<"IndexError", subscript, Zero>>)
  /\ UNCHANGED <<histStep, nmbBins, minVal, maxVal, constructedAs, notHistVars>>

\* lines 97-100
ReadAstuple ==
  /\ CanRead
  /\ histReads' = Append(histReads, <<"astuple", 0, astuple>>)
  /\ UNCHANGED <<histStep, nmbBins, minVal, maxVal, constructedAs, notHistVars>>

NextHist ==
  \/ ReadValueIntervalLength
  \/ ReadBinWidth
  \/ BinWidthZeroDivisionError
  \/ \E subscript \in (-1)..MaxBins : GetItem(subscript)
  \/ \E subscript \in (-1)..MaxBins : GetItemIndexError(subscript)
  \/ ReadAstuple

SpecHist == InitHist /\ [][NextHist]_vars

\* ------------------- testMomentsPhotoProdEtaPi0.py: integral-matrix plots
\* largest number of kinematic bins
MaxMassBins == 3

\* integral matrices a bin can have after calculateIntegralMatrices
BinMatrices ==
  { IdentityMat(1), <<<<Two>>>>, <<<<Cx(1, 1, 2)>>>> }

\* line 143: the calculator the loop variable m is bound to in iteration iBin (1-based)
LoopCalculator(iBin) == iBin

\* lines 145-146: the calculator whose integral matrix is plotted in iteration iBin: moments[0]
PlottedCalculator(iBin) == 1

InitPlot ==
  /\ NotPlotIdle
  /\ plotStep = "plotting"
  /\ \E n \in 1..MaxMassBins : moments \in [1..n -> BinMatrices]
  /\ plotPos = 0
  /\ pdfFiles = {}

\* lines 143-146: one iteration of the loop over the kinematic bins
PlotIntegralMatrices ==
  /\ plotStep = "plotting"
  /\ plotPos < Len(moments)
  /\ LET iBin     == plotPos + 1
         binLabel == LoopCalculator(iBin)
         plotted  == moments[PlottedCalculator(iBin)]
     IN  pdfFiles' = pdfFiles \cup { <<"I_acc", binLabel, <<"matrixNormalized", plotted>>>>,
                                     <<"I_inv", binLabel, <<"inverse", plotted>>>> }
  /\ plotPos' = plotPos + 1
  /\ UNCHANGED <<plotStep, moments, notPlotVars>>

\* line 147: the loop has ended
PlotStop ==
  /\ plotStep = "plotting"
  /\ plotPos = Len(moments)
  /\ plotStep' = "done"
  /\ UNCHANGED <<moments, plotPos, pdfFiles, notPlotVars>>

NextPlot == PlotIntegralMatrices \/ PlotStop

SpecPlot == InitPlot /\ [][NextPlot]_vars

\* ------------------------------------------ testMoments.py: generateDataSphHarmLC
\* largest maxL
MaxOrder == 2

\* line 87
nmbTerms(order) == (order + 1) * (2 * order + 1) - ((order - 1) * (2 * order - 1))

\* lines 96, 98: the ranges of the two loops
LastL(order) == 2 * order
LastM(L) == IF L < 2 THEN L ELSE 2

InitSphHarmLC ==
  /\ NotLcIdle
  /\ lcStep = "start"
  /\ lcMaxL \in 0..MaxOrder
  /\ \E nmbParameters \in 0..(nmbTerms(MaxOrder) + 1) :
       parameters = [index \in 1..nmbParameters |-> One]
  /\ lcL = 0 /\ lcM = 0 /\ termIndex = 0
  /\ termSlots = {} /\ parametersSet = {}

\* line 88: the assertion fails
AssertNmbTermsFails ==
  /\ lcStep = "start"
  /\ ~(Len(parameters) >= nmbTerms(lcMaxL))
  /\ lcStep' = "AssertionError"
  /\ UNCHANGED <<lcMaxL, parameters, lcL, lcM, termIndex, termSlots, parametersSet, notLcVars>>

\* lines 88, 94-96: the assertion passes
AssertNmbTermsPasses ==
  /\ lcStep = "start"
  /\ Len(parameters) >= nmbTerms(lcMaxL)
  /\ lcStep' = "terms"
  /\ UNCHANGED <<lcMaxL, parameters, lcL, lcM, termIndex, termSlots, parametersSet, notLcVars>>

\* lines 96-101: one iteration of the loop over M
AppendTerm ==
  /\ lcStep = "terms"
  /\ termSlots' = termSlots \cup {termIndex}
  /\ termIndex' = termIndex + 1
  /\ IF lcM < LastM(lcL)
     THEN lcM' = lcM + 1 /\ UNCHANGED <<lcL, lcStep>>
     ELSE /\ lcM' = 0
          /\ lcL' = lcL + 1
          /\ lcStep' = IF lcL < LastL(lcMaxL) THEN "terms" ELSE "built"
  /\ UNCHANGED <<lcMaxL, parameters, parametersSet, notLcVars>>

\* lines 103-107
SetParameters ==
  /\ lcStep = "built"
  /\ parametersSet' = {index - 1 : index \in 1..Len(parameters)}
  /\ lcStep' = "done"
  /\ UNCHANGED <<lcMaxL, parameters, lcL, lcM, termIndex, termSlots, notLcVars>>

NextSphHarmLC == AssertNmbTermsFails \/ AssertNmbTermsPasses \/ AppendTerm \/ SetParameters

SpecSphHarmLC == InitSphHarmLC /\ [][NextSphHarmLC]_vars

\* ------------------------ testMomentsPhotoProd.py: calcSpinDensElemSetFromWaves
\* largest spin projection |m| of a wave
MaxM == 1

\* amplitudes the arguments are drawn from
AmpVals == {One, Cx(1, 2, 1), Cx(-2, 1, 3)}

\* (-1)**k
MinusOneTo(k) == IF k % 2 = 0 THEN One ELSE CNeg(One)

\* calcSpinDensElemSetFromWaves with the second term of rhos[0] not conjugated
calcSpinDensElemSetFromWaves_NoConjugate(r, mA, mB, ampA, ampANegM, ampB, ampBNegM) ==
  <<CAdd(CMul(ampA, CConj(ampB)),
         CMul(MinusOneTo(mA - mB), CMul(ampANegM, ampBNegM))),
    CMul(FromInt(-r), CAdd(CMul(MinusOneTo(mA), CMul(ampANegM, CConj(ampB))),
                           CMul(MinusOneTo(mB), CMul(ampA, CConj(ampBNegM))))),
    CMul(CMul(CNeg(ImagI), FromInt(r)),
         CSub(CMul(MinusOneTo(mA), CMul(ampANegM, CConj(ampB))),
              CMul(MinusOneTo(mB), CMul(ampA, CConj(ampBNegM)))))>>

\* lines 129-143: (rho^0, rho^1, rho^2), Eqs. (150) to (152)
calcSpinDensElemSetFromWaves(r, mA, mB, ampA, ampANegM, ampB, ampBNegM) ==
  <<CAdd(CMul(ampA, CConj(ampB)),
         CMul(MinusOneTo(mA - mB), CMul(ampANegM, CConj(ampBNegM)))),
    CMul(FromInt(-r), CAdd(CMul(MinusOneTo(mA), CMul(ampANegM, CConj(ampB))),
                           CMul(MinusOneTo(mB), CMul(ampA, CConj(ampBNegM))))),
    CMul(CMul(CNeg(ImagI), FromInt(r)),
         CSub(CMul(MinusOneTo(mA), CMul(ampANegM, CConj(ampB))),
              CMul(MinusOneTo(mB), CMul(ampA, CConj(ampBNegM)))))>>

InitSpinDens ==
  /\ NotRhoIdle
  /\ rhoStep = "start"
  /\ refl \in {-1, 1}
  /\ m1 \in (-MaxM)..MaxM
  /\ m2 \in (-MaxM)..MaxM
  /\ prodAmp1 \in AmpVals /\ prodAmp1NegM \in AmpVals
  /\ prodAmp2 \in AmpVals /\ prodAmp2NegM \in AmpVals
  /\ rhos = <<>> /\ rhosExchanged = <<>>

\* the call of line 169
CalcSpinDensElemSet ==
  /\ rhoStep \in {"start", "exchanged"}
  /\ rhos = <<>>
  /\ rhos' = calcSpinDensElemSetFromWaves(refl, m1, m2, prodAmp1, prodAmp1NegM, prodAmp2, prodAmp2NegM)
  /\ rhoStep' = IF rhoStep = "start" THEN "asGiven" ELSE "both"
  /\ UNCHANGED <<refl, m1, m2, prodAmp1, prodAmp1NegM, prodAmp2, prodAmp2NegM, rhosExchanged, notRhoVars>>

\* the call of line 169 for the pair (wave2, wave1)
CalcSpinDensElemSetExchanged ==
  /\ rhoStep \in {"start", "asGiven"}
  /\ rhosExchanged = <<>>
  /\ rhosExchanged' = calcSpinDensElemSetFromWaves(refl, m2, m1, prodAmp2, prodAmp2NegM, prodAmp1, prodAmp1NegM)
  /\ rhoStep' = IF rhoStep = "start" THEN "exchanged" ELSE "both"
  /\ UNCHANGED <<refl, m1, m2, prodAmp1, prodAmp1NegM, prodAmp2, prodAmp2NegM, rhos, notRhoVars>>

NextSpinDens == CalcSpinDensElemSet \/ CalcSpinDensElemSetExchanged

SpecSpinDens == InitSpinDens /\ [][NextSpinDens]_vars

\* ------------------------------- testComplexUncert.py: sample covariances
\* largest number of samples in a batch
MaxBatch == 3

\* lines 73-75: xReal[0::2] + 1j * xReal[1::2]
realVecToComplexVec(xReal) ==
  Tabulate([i \in 1..(Len(xReal) \div 2) |->
              CAdd(xReal[2 * i - 1], CMul(ImagI, xReal[2 * i]))], Len(xReal) \div 2)

\* x[:, i], np.conjugate(x), np.sum(x, axis = 0)[i]
Column(x, i) == [k \in 1..Len(x) |-> x[k][i]]
ConjVec(x) == [k \in 1..Len(x) |-> CConj(x[k])]
ColumnSum(x, i) == CSum(Column(x, i))

\* lines 168-178: (1 / (N - 1)) * ((x - xSum / N).T @ (y - ySum / N)), N >= 2
covariance(x, y, xSum, ySum) ==
  LET N == Len(x)
  IN  CMul(CDiv(One, FromInt(N - 1)),
           CSum([k \in 1..N |-> CMul(CSub(x[k], CDiv(xSum, FromInt(N))),
                                     CSub(y[k], CDiv(ySum, FromInt(N))))]))

\* lines 181-189
covMatrixReal(x) ==
  LET n == Len(x[1])
  IN  Mat(n, n, [i \in 1..n |-> [j \in 1..n |->
        covariance(Column(x, i), Column(x, j), ColumnSum(x, i), ColumnSum(x, j))]])

\* covMatrixComplex without np.conjugate in the Hermitian case
covMatrixComplex_NoConjugate(x, pseudoCovMat) ==
  LET n == Len(x[1])
  IN  Mat(n, n, [i \in 1..n |-> [j \in 1..n |->
        covariance(Column(x, i), Column(x, j), ColumnSum(x, i), ColumnSum(x, j))]])

\* lines 192-204
covMatrixComplex(x, pseudoCovMat) ==
  LET n == Len(x[1])
  IN  Mat(n, n, [i \in 1..n |-> [j \in 1..n |->
        IF pseudoCovMat
        THEN covariance(Column(x, i), Column(x, j), ColumnSum(x, i), ColumnSum(x, j))
        ELSE covariance(Column(x, i), ConjVec(Column(x, j)),
                        ColumnSum(x, i), CConj(ColumnSum(x, j)))]])

\* batches of N samples of dimension 2n: all zero or dense, with one entry varied
DenseSamples(N, n) == [k \in 1..N |-> [c \in 1..(2 * n) |-> FromInt(k * k * c + c * c - 2 * k)]]
SampleBatches(N, n) ==
  { SetEntry(B, k, c, v) : B \in {ZeroMat(N, 2 * n), DenseSamples(N, n)},
                           k \in 1..N, c \in 1..(2 * n), v \in RealVals }

InitSampleCov ==
  /\ NotSampleIdle
  /\ sampleStep = "start"
  /\ \E N \in 1..MaxBatch : \E n \in 1..MaxDim : samples \in SampleBatches(N, n)
  /\ ySamples = <<>> /\ covRealMc = <<>>
  /\ covHermitFromReal = <<>> /\ covPseudoFromReal = <<>>
  /\ yCovMatHermitMc = <<>> /\ yCovMatPseudoMc = <<>>

\* line 225: ySamples = [realVecToComplexVec(x) for x in samples]
ComplexSamples ==
  /\ sampleStep = "start"
  /\ ySamples = <<>>
  /\ ySamples' = [k \in 1..Len(samples) |-> realVecToComplexVec(samples[k])]
  /\ UNCHANGED <<sampleStep, samples, covRealMc, covHermitFromReal, covPseudoFromReal,
                 yCovMatHermitMc, yCovMatPseudoMc, notSampleVars>>

\* line 178 with N = 1: 1 / (N - 1)
CovarianceZeroDivisionError ==
  /\ sampleStep = "start"
  /\ Len(samples) = 1
  /\ sampleStep' = "ZeroDivisionError"
  /\ UNCHANGED <<samples, ySamples, covRealMc, covHermitFromReal, covPseudoFromReal,
                 yCovMatHermitMc, yCovMatPseudoMc, notSampleVars>>

\* covMatrixReal(samples)
CovMatrixReal ==
  /\ sampleStep = "start"
  /\ Len(samples) > 1
  /\ covRealMc = <<>>
  /\ covRealMc' = covMatrixReal(samples)
  /\ UNCHANGED <<sampleStep, samples, ySamples, covHermitFromReal, covPseudoFromReal,
                 yCovMatHermitMc, yCovMatPseudoMc, notSampleVars>>

\* lines 232-233 applied to the sample covariance
RealCovToComplexCov ==
  /\ sampleStep = "start"
  /\ covRealMc # <<>>
  /\ covHermitFromReal = <<>>
  /\ covHermitFromReal' = realCovToComplexCov(covRealMc, FALSE)
  /\ covPseudoFromReal' = realCovToComplexCov(covRealMc, TRUE)
  /\ UNCHANGED <<sampleStep, samples, ySamples, covRealMc,
                 yCovMatHermitMc, yCovMatPseudoMc, notSampleVars>>

\* lines 229-230
CovMatrixComplex ==
  /\ sampleStep = "start"
  /\ Len(samples) > 1
  /\ ySamples # <<>>
  /\ yCovMatHermitMc = <<>>
  /\ yCovMatHermitMc' = covMatrixComplex(ySamples, FALSE)
  /\ yCovMatPseudoMc' = covMatrixComplex(ySamples, TRUE)
  /\ UNCHANGED <<sampleStep, samples, ySamples, covRealMc, covHermitFromReal,
                 covPseudoFromReal, notSampleVars>>

NextSampleCov ==
  \/ ComplexSamples
  \/ CovarianceZeroDivisionError
  \/ CovMatrixReal
  \/ RealCovToComplexCov
  \/ CovMatrixComplex

SpecSampleCov == InitSampleCov /\ [][NextSampleCov]_vars

\* --------------------------- testMomentsPhotoProd.py: moments from the waves
\* Clebsch-Gordan coefficients and the factor math.sqrt(...) are square roots
\* of rationals.  A root number <<q, r>> is q * sqrt(r) with rational q and
\* r >= 0; a radical number is a function n |-> c_n on square-free integers n
\* and stands for the sum of c_n * sqrt(n) with complex rational c_n.  The
\* square roots of different square-free integers are linearly independent
\* over the rationals, so a radical number is zero, real or imaginary exactly
\* when all its coefficients are.

RECURSIVE Factorial(_)
Factorial(k) == IF k <= 0 THEN 1 ELSE k * Factorial(k - 1)

RECURSIVE ProductOf(_, _)
\* t[1] * ... * t[k] for a sequence of rationals
ProductOf(t, k) == IF k = 0 THEN One ELSE CMul(ProductOf(t, k - 1), t[k])

\* 1 / (k_1! * ... * k_n!)
OneOverFactorials(ks) ==
  ProductOf([i \in 1..Len(ks) |-> Cx(1, 0, Factorial(ks[i]))], Len(ks))

\* (j1 mj1, j2 mj2 | J M) = sqrt(r) * q (Racah's formula); 0 for invalid arguments
ClebschGordan(j1, mj1, j2, mj2, J, M) ==
  IF \/ mj1 + mj2 # M \/ J < Abs(j1 - j2) \/ J > j1 + j2
     \/ Abs(mj1) > j1 \/ Abs(mj2) > j2 \/ Abs(M) > J
  THEN <<Zero, One>>
  ELSE LET nums == <<J + j1 - j2, J - j1 + j2, j1 + j2 - J,
                     J + M, J - M, j1 - mj1, j1 + mj1, j2 - mj2, j2 + mj2>>
           r == CMul(Cx(2 * J + 1, 0, Factorial(j1 + j2 + J + 1)),
                     ProductOf([i \in 1..9 |-> FromInt(Factorial(nums[i]))], 9))
           dens(k) == <<k, j1 + j2 - J - k, j1 - mj1 - k, j2 + mj2 - k,
                        J - j2 + mj1 + k, J - j1 - mj2 + k>>
           ks == {k \in 0..(j1 + j2 - J) : \A i \in 1..6 : dens(k)[i] >= 0}
           summand(k) == IF k \in ks
                         THEN CMul(FromInt(IF k % 2 = 0 THEN 1 ELSE -1), OneOverFactorials(dens(k)))
                         ELSE Zero
           q == SumTo([i \in 1..(j1 + j2 - J + 1) |-> summand(i - 1)], j1 + j2 - J + 1)
       IN  <<q, r>>

\* line 164: py3nj.clebsch_gordan(two_j1, two_j2, two_j3, two_m1, two_m2, two_m3, ignore_invalid = True)
clebsch_gordan(two_j1, two_j2, two_j3, two_m1, two_m2, two_m3) ==
  ClebschGordan(two_j1 \div 2, two_m1 \div 2, two_j2 \div 2, two_m2 \div 2, two_j3 \div 2, two_m3 \div 2)

RECURSIVE SquarePart(_, _)
\* the largest s with s * s dividing x (d: the trial divisor)
SquarePart(x, d) ==
  IF d * d > x THEN 1
  ELSE IF x % (d * d) = 0 THEN d * SquarePart(x \div (d * d), d)
  ELSE SquarePart(x, d + 1)

\* q * sqrt(r) as <<coefficient, square-free n>>: coefficient * sqrt(n)
Radical(q, r) ==
  LET sa == SquarePart(r[1], 2)
      sb == SquarePart(r[3], 2)
      na == r[1] \div (sa * sa)
      nb == r[3] \div (sb * sb)
  IN  IF q = Zero \/ r = Zero THEN <<Zero, 1>>
      ELSE <<CMul(q, Cx(sa, 0, sb * nb)), na * nb>>

\* lines 163-166: math.sqrt((2 ell2 + 1) / (2 ell1 + 1)) * (CG * CG)
Term(ell1, mm1, ell2, mm2, L, M) ==
  LET cg0 == clebsch_gordan(2 * ell2, 2 * L, 2 * ell1, 0, 0, 0)
      cgM == clebsch_gordan(2 * ell2, 2 * L, 2 * ell1, 2 * mm2, 2 * M, 2 * mm1)
  IN  Radical(CMul(cg0[1], cgM[1]),
              CMul(Cx(2 * ell2 + 1, 0, 2 * ell1 + 1), CMul(cg0[2], cgM[2])))

\* radical numbers
RadZero == <<>>
RadAdd(x, n, c) ==
  IF n \in DOMAIN x THEN [x EXCEPT ![n] = CAdd(@, c)] ELSE x @@ (n :> c)
RadIsZero(x) == \A n \in DOMAIN x : x[n] = Zero
RadReal(x) == [n \in DOMAIN x |-> CReal(x[n])]
RadImag(x) == [n \in DOMAIN x |-> CImag(x[n])]
RadScale(x, c) == [n \in DOMAIN x |-> CMul(x[n], c)]
\* the rational value of a radical number without irrational part
RadRational(x) == IF 1 \in DOMAIN x THEN x[1] ELSE Zero
\* x with the coefficients that are zero removed
RadTrim(x) == [n \in {k \in DOMAIN x : x[k] # Zero} |-> x[n]]

\* (ell, m) in prodAmps[refl]
HasWave(amps, r, ell, m) == \E i \in 1..Len(amps[r]) : amps[r][i][1] = ell /\ amps[r][i][2] = m
\* AmpOf returning the amplitude of the first wave with spin ell
AmpOf_FirstOfSpin(amps, r, ell, m) ==
  amps[r][CHOOSE i \in 1..Len(amps[r]) :
            /\ amps[r][i][1] = ell
            /\ \A j \in 1..Len(amps[r]) : amps[r][j][1] = ell => i <= j][3]
\* prodAmps[refl][(ell, m)]
AmpOf(amps, r, ell, m) ==
  amps[r][CHOOSE i \in 1..Len(amps[r]) : amps[r][i][1] = ell /\ amps[r][i][2] = m][3]

\* lines 155-159: the lookup prodAmps[refl][(ell1, -m1)] finds its key for every wave
ClosedUnderNegM(amps) ==
  \A r \in {-1, 1} : \A i \in 1..Len(amps[r]) : HasWave(amps, r, amps[r][i][1], -amps[r][i][2])

\* lines 119-126
getMaxSpin(amps) ==
  LET ells == {0} \cup UNION {{amps[r][i][1] : i \in 1..Len(amps[r])} : r \in {-1, 1}}
  IN  CHOOSE maxSpin \in ells : \A ell \in ells : ell <= maxSpin

\* lines 156-173: the body of the loops for the pair (wave1, wave2) = (amps[r][i], amps[r][j])
\* (term and rho are bound to their values, so that each is computed once)
AddPair(H, amps, r, i, j, L, M) ==
  LET wave1 == amps[r][i]
      wave2 == amps[r][j]
  IN  CHOOSE added \in
        { IF term[1] = Zero THEN H
          ELSE <<RadAdd(H[1], term[2], CMul(term[1], rho[1])),
                 RadAdd(H[2], term[2], CMul(CNeg(term[1]), rho[2])),
                 RadAdd(H[3], term[2], CMul(CNeg(term[1]), rho[3]))>> :
            term \in {Term(wave1[1], wave1[2], wave2[1], wave2[2], L, M)},
            rho  \in {calcSpinDensElemSetFromWaves(r, wave1[2], wave2[2],
                        wave1[3], AmpOf(amps, r, wave1[1], -wave1[2]),
                        wave2[3], AmpOf(amps, r, wave2[1], -wave2[2]))} } : TRUE

RECURSIVE AddPairs(_, _, _, _, _, _)
\* lines 155-173 for one reflectivity: the pairs p, p + 1, ... in the order of the loops
AddPairs(H, amps, r, p, L, M) ==
  LET K == Len(amps[r])
  IN  IF p > K * K THEN H
      ELSE CHOOSE sum \in
             { AddPairs(added, amps, r, p + 1, L, M) :
                 added \in {AddPair(H, amps, r, ((p - 1) \div K) + 1, ((p - 1) % K) + 1, L, M)} } : TRUE

\* lines 146-175: (H_0(L, M), H_1(L, M), H_2(L, M))
calcMomentSetFromWaves(amps, L, M) ==
  CHOOSE momentSet \in
    { <<RadTrim(H[1]), RadTrim(H[2]), RadTrim(H[3])>> :
        H \in { AddPairs(negative, amps, 1, 1, L, M) :
                  negative \in {AddPairs(<<RadZero, RadZero, RadZero>>, amps, -1, 1, L, M)} } } : TRUE

\* line 191: abs(...) > 1e-15 for one of Im[H_0], Im[H_1], Re[H_2].  The values of
\* the model are exact, and those that are not zero are larger than 1e-15
ExceedsTolerance(momentSet) ==
  \/ ~RadIsZero(RadImag(momentSet[1]))
  \/ ~RadIsZero(RadImag(momentSet[2]))
  \/ ~RadIsZero(RadReal(momentSet[3]))

\* lines 194-198: the parts that must vanish set to exactly zero
WithExactZeros(momentSet) ==
  <<RadTrim(RadReal(momentSet[1])),
    RadTrim(RadReal(momentSet[2])),
    RadTrim(RadScale(RadImag(momentSet[3]), ImagI))>>

\* line 203: the number of moments kept for M
NmbComponents_Three(M) == 3

\* line 203: momentSet[:2 if M == 0 else 3]
NmbComponents(M) == IF M = 0 THEN 2 ELSE 3

\* line 203: moment / norm; norm is H_0(0, 0), which has no irrational part
DividedByNorm(moment, nrm) == [n \in DOMAIN moment |-> CDiv(moment[n], RadRational(nrm))]

\* wave lists of one reflectivity, and two assignments of amplitudes
WaveLists ==
  { <<>>,
    <<<<0, 0>>>>,
    <<<<1, 0>>>>,
    <<<<1, -1>>, <<1, 1>>>>,
    <<<<0, 0>>, <<1, -1>>, <<1, 0>>, <<1, 1>>>>,
    <<<<0, 0>>, <<1, 1>>>> }
AmpFor(r, ell, m, pattern) == Cx(ell + pattern, 2 * m + pattern - 1, r + 2)
ProdAmpsOf(wavesNeg, wavesPos, pattern) ==
  [r \in {-1, 1} |->
     LET waves == IF r = -1 THEN wavesNeg ELSE wavesPos
     IN  [i \in 1..Len(waves) |-> <<waves[i][1], waves[i][2], AmpFor(r, waves[i][1], waves[i][2], pattern)>>]]
ProdAmpsInputs ==
  { ProdAmpsOf(wavesNeg, wavesPos, pattern) :
      wavesNeg \in WaveLists, wavesPos \in WaveLists \ {<<>>}, pattern \in {1, 2} }

InitWaves ==
  /\ NotWaveIdle
  /\ waveStep = "start"
  /\ prodAmps \in ProdAmpsInputs
  /\ waveL = 0 /\ waveM = 0 /\ waveIndex = 0 /\ waveNorm = <<>>
  /\ momentSets = <<>> /\ inputMoments = <<>> /\ inputMomentsLM = <<>> /\ waveWarnings = <<>>

\* lines 159, 164: prodAmps[refl][(ell, -m)] for a wave whose partner is missing
WavesKeyError ==
  /\ waveStep = "start"
  /\ ~ClosedUnderNegM(prodAmps)
  /\ waveStep' = "KeyError"
  /\ UNCHANGED <<prodAmps, waveL, waveM, waveIndex, waveNorm, momentSets, inputMoments,
                 inputMomentsLM, waveWarnings, notWaveVars>>

\* lines 187-204: one iteration of the loop over (L, M); after the last one main goes
\* on to calcIntegralMatrix and calculatePhotoProdMoments (lines 611-640)
CalcMomentSet ==
  /\ waveStep = "start"
  /\ ClosedUnderNegM(prodAmps)
  /\ \E momentSet \in {calcMomentSetFromWaves(prodAmps, waveL, waveM)} :
       \E cleaned \in {IF ExceedsTolerance(momentSet) THEN momentSet ELSE WithExactZeros(momentSet)} :
         LET warn   == ExceedsTolerance(momentSet)
             warnH2 == waveM = 0 /\ ~RadIsZero(cleaned[3])
             nrm    == IF waveIndex = 0 THEN cleaned[1] ELSE waveNorm
             last   == waveM = waveL /\ waveL = 2 * getMaxSpin(prodAmps) + 1
         IN  /\ momentSets' = Append(momentSets, momentSet)
             /\ waveWarnings' = waveWarnings
                  \o (IF warn THEN <<<<"non vanishing imaginary or real parts", waveL, waveM>>>> ELSE <<>>)
                  \o (IF warnH2 THEN <<<<"non vanishing H_2", waveL, waveM>>>> ELSE <<>>)
             /\ waveNorm' = nrm
             /\ inputMoments' = Append(inputMoments,
                  [c \in 1..NmbComponents(waveM) |-> DividedByNorm(cleaned[c], nrm)])
             /\ inputMomentsLM' = Append(inputMomentsLM, <<waveL, waveM>>)
             /\ waveIndex' = waveIndex + 1
             /\ IF waveM < waveL
                THEN waveM' = waveM + 1 /\ UNCHANGED waveL
                ELSE waveM' = 0 /\ waveL' = waveL + 1
             /\ waveStep' = IF last THEN "returned" ELSE "start"
             /\ ixLoop' = IF last /\ ixLoop = "inputMoments" THEN "fMeasValues" ELSE ixLoop
  /\ UNCHANGED <<prodAmps, maxL, maxL_PS, ixPos, iMoment, fMeasKeys, integralKeys, nmbMomentsCounted,
                 H_meas_rows, I_acc_cells, momentsPhysKeys, momentsPhysCovKeys,
                 convVars, momVars, redVars, histVars, plotVars, lcVars, rhoVars, sampleVars>>

NextWaves == WavesKeyError \/ CalcMomentSet

SpecWaves == InitWaves /\ [][NextWaves]_vars

\* ------------- main: input moments, then the measured moments (lines 611-665)
\* the production amplitudes of the comparison: S wave only, S and P waves, a
\* D wave, and a set that lacks the partner of a wave
CompareInputs ==
  { ProdAmpsOf(<<<<0, 0>>>>, <<<<0, 0>>>>, 1),
    ProdAmpsOf(<<<<0, 0>>, <<1, -1>>, <<1, 0>>, <<1, 1>>>>, <<<<0, 0>>, <<1, 0>>>>, 1),
    ProdAmpsOf(<<>>, <<<<1, -1>>, <<1, 1>>>>, 2),
    ProdAmpsOf(<<<<0, 0>>, <<2, 0>>>>, <<<<1, 0>>>>, 2),
    ProdAmpsOf(<<<<0, 0>>, <<1, 1>>>>, <<<<0, 0>>>>, 1) }

InitCompare ==
  /\ ConvIdle /\ MomIdle /\ RedIdle /\ NotWaveIdleScripts
  /\ waveStep = "start"
  /\ prodAmps \in CompareInputs
  /\ waveL = 0 /\ waveM = 0 /\ waveIndex = 0 /\ waveNorm = <<>>
  /\ momentSets = <<>> /\ inputMoments = <<>> /\ inputMomentsLM = <<>> /\ waveWarnings = <<>>
  /\ maxL = getMaxSpin(prodAmps) /\ maxL_PS = getMaxSpin(prodAmps)
  /\ ixLoop = "inputMoments" /\ ixPos = <<0, 0, 0>> /\ iMoment = 0
  /\ fMeasKeys = <<>> /\ integralKeys = <<>> /\ nmbMomentsCounted = 0
  /\ H_meas_rows = {} /\ I_acc_cells = {} /\ momentsPhysKeys = <<>> /\ momentsPhysCovKeys = {}

NextCompare ==
  \/ WavesKeyError
  \/ CalcMomentSet
  \/ FillBasisValues
  \/ FillIntegralRow
  \/ CountMoments
  \/ FillMeasuredRow
  \/ AssembleRow
  \/ FillOutputRow

SpecCompare == InitCompare /\ [][NextCompare]_vars

\* ------------------------------------------------------------- claims
\* C1: round trip real -> complex -> real with realCovToComplexCov and
\* complexCovToRealCov: the real matrix that comes back equals the input
\* matrix entry for entry.
C1_RoundTripReal ==
  (convDir = "real" /\ convStep = 2 /\ toComplexVariant = 1 /\ toRealVariant = 1)
    => foo = xCovMat

\* the round trip has run on a 2n x 2n input, n >= 2, with a non-zero Re-Im cross term
C1_Witness ==
  /\ convDir = "real" /\ convStep = 2 /\ toComplexVariant = 1 /\ toRealVariant = 1
  /\ convN >= 2
  /\ xCovMat[1][4] # Zero /\ xCovMat[1][4] # xCovMat[4][1]
  /\ foo = xCovMat

\* C2: round trip complex -> real -> complex with complexCovToRealCov and
\* realCovToComplexCov: for Hermitian H and symmetric P the pair that comes
\* back equals (H, P).
C2_RoundTripComplex ==
  (convDir = "complex" /\ convStep = 2 /\ toRealVariant = 1 /\ toComplexVariant = 1)
    => foo = <<xCovMatHermit, xCovMatPseudo>>

\* the round trip has run on an n >= 2 pair with non-real off-diagonal entries
C2_Witness ==
  /\ convDir = "complex" /\ convStep = 2 /\ toRealVariant = 1 /\ toComplexVariant = 1
  /\ convN >= 2
  /\ IsHermitian(xCovMatHermit) /\ IsSymmetric(xCovMatPseudo)
  /\ xCovMatHermit[1][2][2] # 0 /\ xCovMatPseudo[1][2][2] # 0
  /\ foo = <<xCovMatHermit, xCovMatPseudo>>

\* C3 (as claimed): both toReal variants return the same matrix for every
\* (H, P), and any toComplex variant applied to the output of any toReal
\* variant returns (H, P).
C3_OneLayout ==
  /\ (convDir = "complex" /\ convStep >= 1)
       => complexCovToRealCov(xCovMatHermit, xCovMatPseudo)
            = complexCovToRealCov2(xCovMatHermit, xCovMatPseudo)
  /\ (convDir = "complex" /\ convStep = 2)
       => foo = <<xCovMatHermit, xCovMatPseudo>>

\* ---- calculatePhotoProdMoments ----
\* the un-normalized physical moments and covariance, recomputed from the inputs
IaccOfInput == [i \in 1..nmbMoments |-> [j \in 1..nmbMoments |-> integralMatrix.dict[<<i, j>>]]]
UnnormalizedMoments ==
  IF integralMatrix.given
  THEN MatVec(Inverse(IaccOfInput), MeasuredMoments(f_meas))
  ELSE MeasuredMoments(f_meas)
UnnormalizedCov ==
  IF integralMatrix.given
  THEN PropagatedCov(AugmentedJacobian(Inverse(IaccOfInput)), MeasuredCov(f_meas))
  ELSE MeasuredCov(f_meas)
Normalized == pc \in {"normalized", "returned"}

\* C4 (as claimed): in every result, whatever the reference moment, the
\* Hermitian block of V_phys_aug equals its conjugate transpose, the pseudo
\* block equals its transpose, and the returned ReRe and ImIm covariances
\* are symmetric under exchange of the two moment indices.
C4_SymmetricBlocks ==
  /\ Normalized =>
       /\ IsHermitian(V_phys_Hermit(V_phys_aug, nmbMoments))
       /\ IsSymmetric(V_phys_pseudo(V_phys_aug, nmbMoments))
  /\ pc = "returned" =>
       \A a \in 1..nmbMoments : \A b \in 1..nmbMoments :
          /\ momentsPhysCov[<<a, b>>][1] = momentsPhysCov[<<b, a>>][1]
          /\ momentsPhysCov[<<a, b>>][2] = momentsPhysCov[<<b, a>>][2]

\* C5: after the acceptance correction and before normalization, J_aug is
\* [[J, 0], [0, conj(J)]] with J the inverse of I_acc, the Hermitian block
\* of V_phys_aug is J V_H J^H, the pseudo block is J V_P J^T and the lower
\* blocks are the complex conjugates of the pseudo and Hermitian blocks.
C5_BlockPropagation ==
  (pc = "corrected" /\ integralMatrix.given) =>
    LET n   == nmbMoments
        J   == SubMat(J_aug, 0, 0, n)
        V_H == SubMat(V_meas_aug, 0, 0, n)
        V_P == SubMat(V_meas_aug, 0, n, n)
    IN  /\ MatMul(J, I_acc) = IdentityMat(n)
        /\ SubMat(J_aug, 0, n, n) = ZeroMat(n, n)
        /\ SubMat(J_aug, n, 0, n) = ZeroMat(n, n)
        /\ SubMat(J_aug, n, n, n) = ConjMat(J)
        /\ SubMat(V_phys_aug, 0, 0, n) = MatMul(J, MatMul(V_H, ConjTranspose(J)))
        /\ SubMat(V_phys_aug, 0, n, n) = MatMul(J, MatMul(V_P, Transpose(J)))
        /\ SubMat(V_phys_aug, n, 0, n) = ConjMat(SubMat(V_phys_aug, 0, n, n))
        /\ SubMat(V_phys_aug, n, n, n) = ConjMat(SubMat(V_phys_aug, 0, 0, n))

\* a correction with a non-real, non-diagonal Jacobian has acted on a covariance
\* whose Hermitian and pseudo blocks differ
C5_Witness ==
  /\ pc = "corrected" /\ integralMatrix.given /\ nmbMoments >= 2
  /\ \E i \in 1..nmbMoments : \E j \in 1..nmbMoments : i # j /\ J_aug[i][j][2] # 0
  /\ SubMat(V_meas_aug, 0, 0, nmbMoments) # SubMat(V_meas_aug, 0, nmbMoments, nmbMoments)
  /\ V_phys_aug # V_meas_aug

\* C6: with an invertible integral matrix the un-normalized H_phys satisfies
\* I_acc . H_phys = H_meas, where I_acc[i_meas, i_phys] is the dictionary
\* entry of the (measured, physical) pair: rows measured, columns physical.
C6_AcceptanceCorrection ==
  (pc = "corrected" /\ integralMatrix.given) =>
    \A iMeas \in 1..nmbMoments :
       CSum([iPhys \in 1..nmbMoments |->
               CMul(integralMatrix.dict[<<iMeas, iPhys>>], H_phys[iPhys])]) = H_meas[iMeas]

\* the correction has acted with a matrix that is not symmetric and changed the moments
C6_Witness ==
  /\ pc = "corrected" /\ integralMatrix.given /\ nmbMoments >= 2
  /\ integralMatrix.dict[<<1, 2>>] # integralMatrix.dict[<<2, 1>>]
  /\ H_phys # H_meas
  /\ MatVec(I_acc, H_phys) = H_meas

\* C7: without an integral matrix the pre-normalization H_phys and
\* V_phys_aug are H_meas and V_meas_aug, and the returned moments and
\* covariances equal those computed with the identity as integral matrix.
C7_IdealIsIdentity ==
  /\ (pc = "corrected" /\ ~integralMatrix.given) =>
       /\ H_phys = H_meas /\ H_phys = MeasuredMoments(f_meas)
       /\ V_phys_aug = V_meas_aug /\ V_phys_aug = MeasuredCov(f_meas)
  /\ (pc = "returned" /\ ~integralMatrix.given) =>
       LET I_inv == Inverse(IdentityMat(nmbMoments))
           H     == MatVec(I_inv, MeasuredMoments(f_meas))
           V     == PropagatedCov(AugmentedJacobian(I_inv), MeasuredCov(f_meas))
       IN  /\ momentsPhys = ReturnedMoments(NormalizedMoments(H, H[1]))
           /\ momentsPhysCov = ReturnedCov(NormalizedCov(V, H[1]), nmbMoments)

\* a call without integral matrix has returned finite moments of n >= 2 moments
C7_Witness ==
  /\ pc = "returned" /\ ~integralMatrix.given /\ nmbMoments >= 2
  /\ norm # Zero
  /\ momentsPhys[2][2] # Zero
  /\ \E key \in DOMAIN momentsPhysCov : momentsPhysCov[key][3] # Zero

C9_SquaredMagnitude ==
  (Normalized /\ norm # Zero) =>
    \A a \in 1..(2 * nmbMoments) : \A b \in 1..(2 * nmbMoments) :
       CMul(V_phys_aug[a][b], CAbsSq(norm)) = UnnormalizedCov[a][b]

\* C10: normalization idempotence: applying the normalization step to a
\* normalized result, whose reference moment is 1 + 0i, changes no moment
\* and no covariance entry.
C10_NormalizationIdempotent ==
  (Normalized /\ H_phys[1] = One) =>
    /\ NormalizedMoments(H_phys, H_phys[1]) = H_phys
    /\ NormalizedCov(V_phys_aug, H_phys[1]) = V_phys_aug

\* a normalized result with reference 1 + 0i, other moments and a covariance that are not zero
C10_Witness ==
  /\ Normalized /\ H_phys[1] = One /\ nmbMoments >= 2
  /\ H_phys[2] # Zero
  /\ \E a \in 1..(2 * nmbMoments) : V_phys_aug[a][a] # Zero /\ ~IsNaN(V_phys_aug[a][a])
  /\ norm # One

\* ------------------------------------------- moment index set: the claims
\* the loops that have run to their end
BasisDone     == ixLoop \in {"items", "nmbMoments", "H_meas", "I_acc", "momentsPhys", "returned", "KeyError"}
IntegralDone  == ixLoop \in {"nmbMoments", "H_meas", "I_acc", "momentsPhys", "returned", "KeyError"}
MeasuredDone  == ixLoop \in {"I_acc", "momentsPhys", "returned", "KeyError"}
AssembledDone == ixLoop \in {"momentsPhys", "returned"}
OutputDone    == ixLoop = "returned"

\* the enumerations as sets of <<slot, triple>>: the slot is the place the triple
\* was given (position in a dict or list, row or column of an array)
MeasOf(key) == SubSeq(key, 1, 3)
PhysOf(key) == SubSeq(key, 4, 6)
BasisEnum       == { <<i, fMeasKeys[i]>> : i \in 1..Len(fMeasKeys) }
MeasuredEnum    == H_meas_rows
AssembledRows   == { <<c[1], MeasOf(c[3])>> : c \in I_acc_cells }
AssembledCols   == { <<c[2], PhysOf(c[3])>> : c \in I_acc_cells }
MomentsPhysEnum == { <<i, momentsPhysKeys[i][1]>> : i \in 1..Len(momentsPhysKeys) }
CovMeasEnum     == { <<c[2], MeasOf(c[1])>> : c \in momentsPhysCovKeys }
CovPhysEnum     == { <<c[3], PhysOf(c[1])>> : c \in momentsPhysCovKeys }
TriplesOf(E)    == { e[2] : e \in E }
Max(S) == CHOOSE x \in S : \A y \in S : x >= y

\* T has no triple with momentIndex = 2 and M = 0 and has every other triple with
\* momentIndex in 0..2 and 0 <= M <= L for every L up to the largest L in T
NoGapsNoZeros(T) ==
  /\ T # {}
  /\ \A t \in T : ~(t[1] = 2 /\ t[3] = 0)
  /\ \A momentIndex \in 0..2 : \A L \in 0..Max({ t[2] : t \in T }) : \A M \in 0..L :
       ~(momentIndex = 2 /\ M = 0) => <<momentIndex, L, M>> \in T
\* ... and every triple of the enumeration E has exactly one slot
EachOnce(E) == NoGapsNoZeros(TriplesOf(E)) /\ Cardinality(E) = Cardinality(TriplesOf(E))
\* a set K of 6-tuple keys has every pair of its measured and physical triples
AllPairs(K) ==
  /\ NoGapsNoZeros({ MeasOf(k) : k \in K }) /\ NoGapsNoZeros({ PhysOf(k) : k \in K })
  /\ K = { a \o b : a \in { MeasOf(k) : k \in K }, b \in { PhysOf(k) : k \in K } }

\* C11: every enumeration of the moment index set (keys of fMeasValues /
\* fPhysValues, keys of the dictionary calcIntegralMatrix returns, rows of
\* f_meas / H_meas, rows and columns of I_acc, entries of momentsPhys, keys of
\* momentsPhysCov) has no triple with momentIndex = 2 and M = 0 and has every
\* other triple with momentIndex in {0, 1, 2} and 0 <= M <= L of its L range
\* exactly once.
C11_EnumerationsComplete ==
  /\ BasisDone => EachOnce(BasisEnum)
  /\ IntegralDone => /\ AllPairs(Range(integralKeys))
                     /\ Len(integralKeys) = Cardinality(Range(integralKeys))
  /\ MeasuredDone => EachOnce(MeasuredEnum)
  /\ AssembledDone => /\ EachOnce(AssembledRows) /\ EachOnce(AssembledCols)
                      /\ AllPairs({ c[3] : c \in I_acc_cells })
                      /\ Cardinality(I_acc_cells) = Cardinality({ c[3] : c \in I_acc_cells })
  /\ OutputDone => /\ EachOnce(MomentsPhysEnum)
                   /\ EachOnce(CovMeasEnum) /\ EachOnce(CovPhysEnum)
                   /\ AllPairs({ c[1] : c \in momentsPhysCovKeys })
                   /\ Cardinality(momentsPhysCovKeys) = Cardinality({ c[1] : c \in momentsPhysCovKeys })

\* a call with maxL = 1 has returned: H_2(3, 3) was enumerated, H_2(3, 0) and H_2(0, 0) were not
C11_Witness ==
  /\ OutputDone /\ maxL = 1
  /\ <<2, 3, 3>> \in TriplesOf(MeasuredEnum) /\ <<2, 3, 3>> \in TriplesOf(MomentsPhysEnum)
  /\ <<2, 3, 0>> \notin TriplesOf(MeasuredEnum) /\ <<2, 0, 0>> \notin TriplesOf(BasisEnum)
  /\ <<0, 3, 0>> \in TriplesOf(AssembledCols)
  /\ <<1, 2, 1, 2, 3, 3>> \in { c[1] : c \in momentsPhysCovKeys }

\* the triples of the index sets built for the maxL of calcIntegralMatrix and for
\* the maxL of calculatePhotoProdMoments (also while a loop is still running)
TriplesForMaxL_PS == TriplesOf(BasisEnum) \cup { MeasOf(k) : k \in Range(integralKeys) }
                       \cup { PhysOf(k) : k \in Range(integralKeys) }
TriplesForMaxL    == TriplesOf(MeasuredEnum) \cup TriplesOf(MomentsPhysEnum)
                       \cup TriplesOf(CovMeasEnum) \cup TriplesOf(CovPhysEnum)

\* C12 (as claimed): every triple (momentIndex, L, M) of the index set built
\* for a maxL argument has momentIndex in {0, 1, 2} and 0 <= M <= L <= maxL.
C12_LAtMostMaxL ==
  /\ \A t \in TriplesForMaxL_PS : t[1] \in 0..2 /\ 0 <= t[3] /\ t[3] <= t[2] /\ t[2] <= maxL_PS
  /\ \A t \in TriplesForMaxL : t[1] \in 0..2 /\ 0 <= t[3] /\ t[3] <= t[2] /\ t[2] <= maxL

\* C12 (amended): every triple (momentIndex, L, M) of the index set built for
\* a maxL argument has momentIndex in {0, 1, 2} and 0 <= M <= L <= 2 * maxL + 1.
C12_LAtMostTwiceMaxLPlusOne ==
  /\ \A t \in TriplesForMaxL_PS :
       t[1] \in 0..2 /\ 0 <= t[3] /\ t[3] <= t[2] /\ t[2] <= 2 * maxL_PS + 1
  /\ \A t \in TriplesForMaxL :
       t[1] \in 0..2 /\ 0 <= t[3] /\ t[3] <= t[2] /\ t[2] <= 2 * maxL + 1

\* both functions have enumerated moments with L = 2 * maxL + 1 > maxL
C12_Witness ==
  /\ OutputDone /\ maxL = 1 /\ maxL_PS = 1
  /\ <<0, 3, 3>> \in TriplesOf(BasisEnum) /\ <<1, 3, 0>> \in TriplesOf(MeasuredEnum)
  /\ <<2, 3, 1>> \in TriplesOf(MomentsPhysEnum)

\* the flat index of the H_meas loop: {<<iMoment, triple>>}
FlatIndex == MeasuredEnum
\* E gives every slot 0..n-1 one triple and every triple one slot
IsBijection(E, n) ==
  /\ Cardinality(E) = n
  /\ { e[1] : e \in E } = 0..(n - 1)
  /\ Cardinality(TriplesOf(E)) = n
\* the triple with flat index i
TripleAt(i) == CHOOSE t \in TriplesOf(FlatIndex) : <<i, t>> \in FlatIndex

\* C13: the flat index given by the enumeration loops is a bijection between
\* the index set and 0..nmbMoments-1; the H_meas loop, the rows and the
\* columns of I_acc, momentsPhys and both halves of the momentsPhysCov keys
\* use the same mapping; for the same maxL the keys of calcIntegralMatrix are
\* inserted in this order (the 6-tuple keys row by row); the triple (0, 0, 0)
\* has flat index 0, the element read as normalization reference.
C13_OneFlatIndex ==
  /\ MeasuredDone =>
        /\ IsBijection(FlatIndex, nmbMomentsCounted)
        /\ <<0, <<0, 0, 0>>>> \in FlatIndex
  /\ AssembledDone => AssembledRows = FlatIndex /\ AssembledCols = FlatIndex
  /\ OutputDone =>
        /\ \A i \in 1..Len(momentsPhysKeys) :
              momentsPhysKeys[i][2] = i - 1 /\ <<i - 1, momentsPhysKeys[i][1]>> \in FlatIndex
        /\ Len(momentsPhysKeys) = nmbMomentsCounted
        /\ CovMeasEnum = FlatIndex /\ CovPhysEnum = FlatIndex
  /\ (MeasuredDone /\ maxL_PS = maxL) =>
        /\ { <<e[1] - 1, e[2]>> : e \in BasisEnum } = FlatIndex
        /\ Len(integralKeys) = nmbMomentsCounted * nmbMomentsCounted
        /\ \A p \in 1..Len(integralKeys) :
              integralKeys[p] = TripleAt((p - 1) \div nmbMomentsCounted)
                                  \o TripleAt((p - 1) % nmbMomentsCounted)

\* a call with maxL = 1 for both functions has returned: 26 moments, H_2(3, 3) is the last
C13_Witness ==
  /\ OutputDone /\ maxL = 1 /\ maxL_PS = 1
  /\ nmbMomentsCounted = 26
  /\ <<25, <<2, 3, 3>>>> \in FlatIndex /\ <<25, <<2, 3, 3>>>> \in AssembledCols
  /\ momentsPhysKeys[26] = <<<<2, 3, 3>>, 25>>
  /\ <<<<0, 0, 0, 2, 3, 3>>, 0, 25>> \in momentsPhysCovKeys
  /\ integralKeys[27] = <<0, 1, 0, 0, 0, 0>>

\* C14 (as claimed): calculatePhotoProdMoments called with maxL = a and an
\* integralMatrix built by calcIntegralMatrix with maxL = b # a fails with an
\* error, for b < a and for b > a: it never gets past the assembly of I_acc
\* and never returns.
C14_MismatchRaises ==
  maxL_PS # maxL => ixLoop \notin {"momentsPhys", "returned"}

\* -------------------------------------- per-event reductions: the claims
\* sum over the events of f_meas_k(event) * f_phys_j(event), nothing conjugated
SumOfProducts(k, j) ==
  CSum([e \in 1..Cols(fMeasValues) |-> CMul(fMeasValues[k][e], fPhysValues[j][e])])
\* the same with the measured factor conjugated
SumOfConjProducts(k, j) ==
  CSum([e \in 1..Cols(fMeasValues) |-> CMul(CConj(fMeasValues[k][e]), fPhysValues[j][e])])

\* C15: calcIntegralMatrix returns exactly n^2 entries, one for every ordered
\* pair (k, j) of moments, keyed with the measured index first and the
\* physical index second; entry (k, j) times nmbGenEvents equals 8 pi^2 times
\* the sum over the events of f_meas_k(event) * f_phys_j(event), with no
\* complex conjugation.
C15_IntegralMatrixEntries ==
  redStep # "start" =>
    LET n == Rows(fMeasValues)
        I == wholeSample.I_acc
    IN  /\ DOMAIN I = (1..n) \X (1..n)
        /\ Cardinality(DOMAIN I) = n * n
        /\ \A k \in 1..n : \A j \in 1..n :
              /\ ~IsNaN(I[<<k, j>>])
              /\ CMul(I[<<k, j>>], FromInt(nmbGenEvents))
                   = CMul(EightPiSquared, SumOfProducts(k, j))

\* a matrix of two moments from several events and nmbGenEvents > 1, where the
\* order of the key and a conjugation would both change the entries
C15_Witness ==
  /\ redStep # "start" /\ Rows(fMeasValues) = 2 /\ Cols(fMeasValues) >= 2 /\ nmbGenEvents > 1
  /\ wholeSample.I_acc[<<1, 2>>] # wholeSample.I_acc[<<2, 1>>]
  /\ SumOfConjProducts(2, 1) # SumOfProducts(2, 1)
  /\ wholeSample.I_acc[<<2, 1>>][2] # 0

\* C16: H_meas, every entry of the integral matrix and V_meas_aug are the
\* same for the events in any order, and H_meas and every entry of the
\* integral matrix are the sums of the values computed shard by shard (with
\* the same nmbGenEvents) for any partition of the events into two shards.
C16_ReductionsOrderFree ==
  /\ redStep \in {"permuted", "sharded"} => permutedSample = wholeSample
  /\ redStep = "sharded" =>
        /\ shardSums.H_meas = wholeSample.H_meas
        /\ shardSums.I_acc = wholeSample.I_acc

\* three events in an order that moves every event, split into two non-empty
\* shards that are not contiguous, two moments, finite covariance
C16_Witness ==
  /\ redStep = "sharded" /\ Rows(fMeasValues) = 2
  /\ eventOrder = <<3, 1, 2>> /\ shardOf = <<1, 2, 1>>
  /\ ~IsNaN(wholeSample.V_meas_aug[1][2]) /\ wholeSample.V_meas_aug[1][2] # Zero
  /\ wholeSample.H_meas[2][2] # 0
  /\ permutedSample = wholeSample /\ shardSums.H_meas = wholeSample.H_meas

\* ------------------------------- calculatePhotoProdMoments: error claims
\* C17 (as claimed): calculatePhotoProdMoments called with fewer than two
\* events (N = 0 or N = 1) fails with an error: it does not return.
C17_SmallSampleFails ==
  (pc # "idle" /\ nmbEvents < 2) => pc # "returned"

C19_ZeroReferenceAborts ==
  Normalized => norm # Zero

\* the only changes of the stage of a call
StageSteps ==
  { <<"start", "measured">>, <<"measured", "corrected">>, <<"measured", "error">>,
    <<"corrected", "normalized">>, <<"normalized", "returned">> }

\* C20: a call goes through the stages Uncorrected (measured), Acceptance-
\* corrected (corrected), Normalized in this order, each once; momentsPhys and
\* momentsPhysCov are produced only by the step that follows the
\* normalization; a call that raised stays where it raised and has produced
\* neither.
C20_StagesInOrder ==
  /\ [](pc # "returned" => momentsPhys = <<>> /\ momentsPhysCov = <<>>)
  /\ [][ /\ pc' # pc => <<pc, pc'>> \in StageSteps
         /\ (momentsPhys' # momentsPhys \/ momentsPhysCov' # momentsPhysCov)
              => pc = "normalized" /\ pc' = "returned"
         /\ pc = "error" => pc' = "error" ]_vars

\* a call with an acceptance correction has returned its moments and covariances
C20_Witness ==
  /\ pc = "returned" /\ integralMatrix.given /\ nmbMoments = 2
  /\ stdout = <<"H_meas", "I_acc", "eigenvalues">>
  /\ Len(momentsPhys) = 2 /\ momentsPhysCov # <<>>
  /\ H_meas # <<>> /\ I_acc # <<>> /\ norm # Zero

\* --------------- calcIntegralMatrix, then calculatePhotoProdMoments: claims
\* C21 (as claimed): for every nmbGenEvents <= 0 calcIntegralMatrix fails
\* with an error and returns no matrix.
C21_NonPositiveGenEventsFails ==
  (redStep \in {"returned", "ZeroDivisionError"} /\ nmbGenEvents <= 0)
    => redStep = "ZeroDivisionError" /\ ~integralMatrix.given

\* ---------------------------------------------- converters: symmetry claims
\* C23: for a symmetric real 2n x 2n matrix X, realCovToComplexCov2(X) is
\* Hermitian and realCovToComplexCov2(X, pseudoCovMat = True) is symmetric;
\* for Hermitian H and symmetric P, complexCovToRealCov2(H, P) is a symmetric
\* real matrix whose upper-right block is V(Re, Im) and whose lower-left
\* block is the transpose of the upper-right block.
C23_SymmetryClasses ==
  /\ (convDir = "real" /\ convStep >= 1 /\ toComplexVariant = 2 /\ IsSymmetric(xCovMat))
       => /\ IsHermitian(xCovMatHermit) /\ Rows(xCovMatHermit) = convN
          /\ IsSymmetric(xCovMatPseudo) /\ Rows(xCovMatPseudo) = convN
  /\ (convDir = "complex" /\ convStep >= 1 /\ toRealVariant = 2
        /\ IsHermitian(xCovMatHermit) /\ IsSymmetric(xCovMatPseudo))
       => /\ IsSymmetric(xCovMat) /\ IsRealMat(xCovMat) /\ Rows(xCovMat) = 2 * convN
          /\ SubMat(xCovMat, 0, convN, convN) = V_Re_Im_of(xCovMatHermit, xCovMatPseudo)
          /\ SubMat(xCovMat, convN, 0, convN) = Transpose(SubMat(xCovMat, 0, convN, convN))

\* realCovToComplexCov2 has run on a symmetric 4 x 4 matrix whose V(Re, Im) block is
\* not symmetric: the Hermitian result has a non-real entry
C23_Witness ==
  /\ convDir = "real" /\ convStep >= 1 /\ toComplexVariant = 2 /\ convN = 2
  /\ IsSymmetric(xCovMat) /\ xCovMat[1][4] # xCovMat[2][3]
  /\ xCovMatHermit[1][2][2] # 0 /\ xCovMatPseudo[1][2][2] # 0
  /\ IsHermitian(xCovMatHermit) /\ IsSymmetric(xCovMatPseudo)

\* ------------------------------------------------- HistAxisBinning: claims
\* the bin centre of bin i of the binning as it was constructed
BinCentre(i) ==
  LET n  == constructedAs[1]
      lo == Min({constructedAs[2], constructedAs[3]})
      hi == Max({constructedAs[2], constructedAs[3]})
  IN  CAdd(FromInt(lo), CDiv(CMul(Cx(2 * i + 1, 0, 2), FromInt(hi - lo)), FromInt(n)))

\* v is a real number in [lo, hi]
InsideInterval(v, lo, hi) == v[2] = 0 /\ v[3] > 0 /\ lo * v[3] <= v[1] /\ v[1] <= hi * v[3]

\* C24: for nmbBins >= 1 (maxVal < minVal included) and 0 <= i < nmbBins every
\* read of self[i] returns min(minVal, maxVal) + (i + 0.5) |maxVal - minVal| / nmbBins,
\* a value inside [min(minVal, maxVal), max(minVal, maxVal)], whatever was
\* read before; and no read changes what astuple returns.
C24_BinCentres ==
  /\ \A k \in 1..Len(histReads) :
       (histReads[k][1] = "__getitem__" /\ constructedAs[1] >= 1 /\ histReads[k][2] >= 0)
         => /\ histReads[k][3] = BinCentre(histReads[k][2])
            /\ InsideInterval(histReads[k][3], Min({constructedAs[2], constructedAs[3]}),
                                               Max({constructedAs[2], constructedAs[3]}))
  /\ constructedAs[1] >= 1 => astuple = constructedAs

\* the integral matrix of the same phase-space sample for nGen generated events,
\* and the normalized results calculatePhotoProdMoments obtains with it
IaccForGen(nGen) ==
  LET dict == calcIntegralMatrix(fMeasValues, fPhysValues, nGen)
  IN  Mat(nmbMoments, nmbMoments, [i \in 1..nmbMoments |-> [j \in 1..nmbMoments |-> dict[<<i, j>>]]])
MomentsForGen(nGen) ==
  LET H == MatVec(Inverse(IaccForGen(nGen)), MeasuredMoments(f_meas))
  IN  NormalizedMoments(H, H[1])
CovForGen(nGen) ==
  LET I_inv == Inverse(IaccForGen(nGen))
      H     == MatVec(I_inv, MeasuredMoments(f_meas))
  IN  NormalizedCov(PropagatedCov(AugmentedJacobian(I_inv), MeasuredCov(f_meas)), H[1])

\* C25: for a fixed phase-space sample and a fixed data sample the normalized
\* moments and the normalized covariances are the same for every positive
\* nmbGenEvents passed to calcIntegralMatrix (they equal those for nmbGenEvents = 1).
C25_GenEventsCancel ==
  (Normalized /\ nmbGenEvents > 0)
    => /\ H_phys = MomentsForGen(1)
       /\ V_phys_aug = CovForGen(1)
       /\ pc = "returned"
            => /\ momentsPhys = ReturnedMoments(MomentsForGen(1))
               /\ momentsPhysCov = ReturnedCov(CovForGen(1), nmbMoments)

\* two moments, more than one generated event, a non-zero reference moment and a
\* non-zero second moment: the integral matrix differs from that of nmbGenEvents = 1
C25_Witness ==
  /\ pc = "returned" /\ nmbGenEvents >= 2 /\ nmbMoments = 2
  /\ IaccOfInput # IaccForGen(1)
  /\ ~IsNaN(H_phys[1]) /\ ~IsNaN(H_phys[2]) /\ H_phys[2] # Zero
  /\ V_phys_aug[1][2] # Zero /\ ~IsNaN(V_phys_aug[1][2])

\* ------------------------------------------- integral-matrix plots: claims
\* C28: in the loop that plots the acceptance integral matrices for all
\* kinematic bins, the normalized integral matrix and the inverse written to
\* the files labelled with a bin's label are the matrices of that same bin.
C28_PlotsOfTheBin ==
  \A file \in pdfFiles :
    /\ file[1] = "I_acc" => file[3] = <<"matrixNormalized", moments[file[2]]>>
    /\ file[1] = "I_inv" => file[3] = <<"inverse", moments[file[2]]>>

\* ------------------------------------------- generateDataSphHarmLC: claims
\* C29: for every maxL >= 0 the asserted minimum number of parameters nmbTerms
\* equals the number of parameter slots [termIndex] created by the term loops,
\* so a call that passes the assertion gives a value to every parameter used.
C29_AssertedTermsAreTheSlots ==
  /\ lcStep \in {"built", "done"}
       => /\ Cardinality(termSlots) = termIndex
          /\ nmbTerms(lcMaxL) = termIndex
  /\ lcStep = "done" => termSlots \subseteq parametersSet

\* ------------------------------------ calcSpinDensElemSetFromWaves: claims
\* C30: for every reflectivity, every m1, m2 and all amplitudes, exchanging the
\* two waves (m1 <-> m2, prodAmp1 <-> prodAmp2, prodAmp1NegM <-> prodAmp2NegM)
\* yields the complex conjugate of each of rho^0, rho^1 and rho^2.
C30_HermitianInWavePair ==
  rhoStep = "both"
    => \A i \in 1..3 : rhosExchanged[i] = CConj(rhos[i])

\* both calls were made for m1 # m2 with all three components non-real
C30_Witness ==
  /\ rhoStep = "both" /\ m1 # m2 /\ prodAmp1 # prodAmp2 /\ prodAmp1NegM # prodAmp2NegM
  /\ \A i \in 1..3 : rhos[i][2] # 0 /\ rhosExchanged[i] # rhos[i]

\* ------------------------------------------------ sample covariances: claims
\* C26: for every batch of N >= 2 real samples of dimension 2n in the layout
\* [Re_0, Im_0, Re_1, Im_1, ...], realCovToComplexCov(covMatrixReal(samples))
\* equals covMatrixComplex of the complex samples, the same holds with
\* pseudoCovMat = True, the Hermitian result is Hermitian and the pseudo
\* result is symmetric.
C26_SampleCovariancesAgree ==
  (Len(samples) >= 2 /\ covHermitFromReal # <<>> /\ yCovMatHermitMc # <<>>)
    => /\ covHermitFromReal = yCovMatHermitMc
       /\ covPseudoFromReal = yCovMatPseudoMc
       /\ IsHermitian(yCovMatHermitMc)
       /\ IsSymmetric(yCovMatPseudoMc)

\* three samples of dimension 4 with correlated real and imaginary parts: the
\* Hermitian covariance has a non-real entry and differs from the pseudo-covariance
C26_Witness ==
  /\ Len(samples) = 3 /\ covHermitFromReal # <<>> /\ yCovMatHermitMc # <<>>
  /\ Len(yCovMatHermitMc) = 2
  /\ yCovMatHermitMc[1][2][2] # 0
  /\ yCovMatPseudoMc[1][2] # yCovMatHermitMc[1][2]
  /\ covHermitFromReal = yCovMatHermitMc

MeasuredLM(momentIndex) ==
  LET HasIndex(moment) == moment[1][1] = momentIndex
      selected == SelectSeq(momentsPhysKeys, HasIndex)
  IN  [k \in 1..Len(selected) |-> <<selected[k][1][2], selected[k][1][3]>>]

\* line 659: the (L, M) of the input moments with len(inputMoment) > momentIndex, in list order
InputLM(momentIndex) ==
  LET LongEnough(entry) == Len(entry[1]) > momentIndex
      selected == SelectSeq([k \in 1..Len(inputMoments) |-> <<inputMoments[k], inputMomentsLM[k]>>],
                            LongEnough)
  IN  [k \in 1..Len(selected) |-> selected[k][2]]

\* C27: for each momentIndex in {0, 1, 2} the measured moments filtered to that
\* momentIndex and the input moments filtered by len(inputMoment) > momentIndex
\* have the same length and their k-th elements belong to the same (L, M), when
\* both were computed for the same maximum spin; the entries of
\* calcAllMomentsFromWaves have 2 components when M = 0 and 3 otherwise.
C27_ComparedListsAligned ==
  /\ \A k \in 1..Len(inputMoments) :
       Len(inputMoments[k]) = (IF inputMomentsLM[k][2] = 0 THEN 2 ELSE 3)
  /\ (waveStep = "returned" /\ ixLoop = "returned" /\ maxL = getMaxSpin(prodAmps))
       => \A momentIndex \in 0..2 : MeasuredLM(momentIndex) = InputLM(momentIndex)

\* both lists are complete for waves up to spin 1: 10 moments H_0, 6 moments H_2
C27_Witness ==
  /\ waveStep = "returned" /\ ixLoop = "returned" /\ maxL = 1 /\ getMaxSpin(prodAmps) = 1
  /\ Len(MeasuredLM(0)) = 10 /\ Len(InputLM(0)) = 10
  /\ Len(MeasuredLM(2)) = 6 /\ Len(InputLM(2)) = 6
  /\ MeasuredLM(2)[1] = <<1, 1>>

====
